---- MODULE Spec2Model ----
(***************************************************************************)
(* slogscope: a slog.Handler with per-package log levels that can be       *)
(* reconfigured at run time (UseConfig, UseConfigTemporarily,              *)
(* UseConfigFile) and by a file watcher goroutine.                         *)
(*                                                                         *)
(* Modelled sources: src/handler.go (lines 1-160), src/slogscope.go        *)
(* (lines 874-1143, the variant handler.go and the tests compile against)  *)
(* and src/types.go.                                                       *)
(*                                                                         *)
(* Granularity: one action per critical section of ss.mu or per access to  *)
(* the state that Enabled and GetConfig read without the mutex             *)
(* (opts.Config, pkgMap).  A panic of any goroutine ends the program.      *)
(***************************************************************************)
EXTENDS Integers, Sequences, FiniteSets, TLC

(***************************************************************************)
(* Bounds of the model.                                                    *)
(***************************************************************************)
MaxEnv == 2     \* calls of the API (Use*, GetConfig, Enabled) and file system
                \* events, counted together

(***************************************************************************)
(* Level tokens are sequences of one-character strings.                    *)
(***************************************************************************)
LogLevelDebug == <<"D", "E", "B", "U", "G">>
LogLevelInfo  == <<"I", "N", "F", "O">>
LogLevelWarn  == <<"W", "A", "R", "N">>
LogLevelError == <<"E", "R", "R", "O", "R">>
defaultLogLevel == LogLevelInfo
defaultConfigFile == "slogscope.yml"

\* log/slog severities
LevelDebug == 0 - 4
LevelInfo  == 0
LevelWarn  == 4
LevelError == 8

LowerCase == <<"a", "b", "c", "d", "e", "f", "g", "h", "i", "j", "k", "l", "m",
               "n", "o", "p", "q", "r", "s", "t", "u", "v", "w", "x", "y", "z">>
UpperCase == <<"A", "B", "C", "D", "E", "F", "G", "H", "I", "J", "K", "L", "M",
               "N", "O", "P", "Q", "R", "S", "T", "U", "V", "W", "X", "Y", "Z">>
DigitChars == <<"0", "1", "2", "3", "4", "5", "6", "7", "8", "9">>

Letters     == {LowerCase[i] : i \in 1..26} \cup {UpperCase[i] : i \in 1..26}
Digits      == {DigitChars[i] : i \in 1..10}
UpperOf     == [c \in {LowerCase[i] : i \in 1..26} |->
                   UpperCase[CHOOSE i \in 1..26 : LowerCase[i] = c]]
DigitValues == [c \in Digits |-> (CHOOSE i \in 1..10 : DigitChars[i] = c) - 1]

IsLetter(c) == c \in Letters
IsDigit(c)  == c \in Digits
DigitVal(c) == DigitValues[c]

\* strings.ToUpper
ToUpperChar(c) == IF c \in DOMAIN UpperOf THEN UpperOf[c] ELSE c
ToUpper(s) == [i \in 1..Len(s) |-> ToUpperChar(s[i])]

(***************************************************************************)
(* Go's int and slog.Level are 64 bits wide.  An integer is the triple      *)
(* <<a, b, c>> of value a * Limb^2 + b * Limb + c with 0 <= b, c < Limb;    *)
(* the operations are exact, Wrap reduces to the 64-bit range.              *)
(***************************************************************************)
Limb == 10000000
Norm(a, b, c) ==
    LET c2 == c % Limb
        b1 == b + ((c - c2) \div Limb)
        b2 == b1 % Limb
    IN  <<a + ((b1 - b2) \div Limb), b2, c2>>
GoInt(n)    == Norm(0, 0, n)
Add(x, y) == Norm(x[1] + y[1], x[2] + y[2], x[3] + y[3])
Sub(x, y) == Norm(x[1] - y[1], x[2] - y[2], x[3] - y[3])
Less(x, y) ==
    \/ x[1] < y[1]
    \/ x[1] = y[1] /\ x[2] < y[2]
    \/ x[1] = y[1] /\ x[2] = y[2] /\ x[3] < y[3]
Geq(x, y) == ~Less(x, y)

MaxInt  == <<92233, 7203685, 4775807>>           \* 1<<63 - 1
MinInt  == <<0 - 92234, 2796314, 5224192>>       \* -1 << 63
TwoTo64 == <<184467, 4407370, 9551616>>
\* the result of int arithmetic on the exact value x
Wrap(x) ==
    IF Less(MaxInt, x) THEN Sub(x, TwoTo64)
    ELSE IF Less(x, MinInt) THEN Add(x, TwoTo64)
    ELSE x

\* the number the digits ds[lo..hi] denote, for a limb's worth of digits
RECURSIVE DigitsValue(_, _, _)
DigitsValue(ds, lo, hi) ==
    IF hi < lo THEN 0
    ELSE 10 * DigitsValue(ds, lo, hi - 1) + DigitVal(ds[hi])

\* the number a run of decimal digits denotes: seven digits to a limb
Decimal(ds) ==
    << DigitsValue(ds, 1, Len(ds) - 14),
       DigitsValue(ds, IF Len(ds) > 13 THEN Len(ds) - 13 ELSE 1, Len(ds) - 7),
       DigitsValue(ds, IF Len(ds) > 6 THEN Len(ds) - 6 ELSE 1, Len(ds)) >>

\* the number of digits of ds from its first digit that is not 0
Significant(ds) ==
    Cardinality({i \in 1..Len(ds) : \E j \in 1..i : ds[j] # "0"})

\* strconv.Atoi of a run of decimal digits; the error is dropped by the
\* caller, the value on a range error is the largest int
Atoi(ds) ==
    IF Significant(ds) > 19 THEN MaxInt
    ELSE IF Less(MaxInt, Decimal(ds)) THEN MaxInt
    ELSE Decimal(ds)

\* last index j >= from - 1 such that s[from..j] consists of letters
RECURSIVE LetterRunEnd(_, _)
LetterRunEnd(s, from) ==
    IF from <= Len(s) /\ IsLetter(s[from]) THEN LetterRunEnd(s, from + 1)
    ELSE from - 1

\* last index j >= from - 1 such that s[from..j] consists of digits
RECURSIVE DigitRunEnd(_, _)
DigitRunEnd(s, from) ==
    IF from <= Len(s) /\ IsDigit(s[from]) THEN DigitRunEnd(s, from + 1)
    ELSE from - 1

\* variant: the pattern anchored at both ends, ^...$
FindStringSubmatch_WholeToken(s) ==
    LET none == [ok |-> FALSE, name |-> <<>>, sign |-> "", digits |-> <<>>]
    IN  IF s = <<>> THEN none
        ELSE IF ~IsLetter(s[1]) THEN none
        ELSE LET e == LetterRunEnd(s, 1)
                 hasNum == /\ e + 2 <= Len(s)
                           /\ s[e + 1] \in {"+", "-"}
                           /\ IsDigit(s[e + 2])
                 last == IF hasNum THEN DigitRunEnd(s, e + 2) ELSE e
             IN  IF last # Len(s) THEN none
                 ELSE [ok     |-> TRUE,
                       name   |-> SubSeq(s, 1, e),
                       sign   |-> IF hasNum THEN s[e + 1] ELSE "",
                       digits |-> IF hasNum THEN SubSeq(s, e + 2, last) ELSE <<>>]

(***************************************************************************)
(* regexp `([a-zA-Z]+)(([+\-])(\d+))?` . FindStringSubmatch: the leftmost  *)
(* match, the letter run greedy, the signed number optional.  The result   *)
(* has ok = FALSE when the string holds no letter (len(matches) = 0).      *)
(***************************************************************************)
FindStringSubmatch(s) ==
    IF \A i \in 1..Len(s) : ~IsLetter(s[i])
    THEN [ok |-> FALSE, name |-> <<>>, sign |-> "", digits |-> <<>>]
    ELSE LET b == CHOOSE i \in 1..Len(s) :
                    IsLetter(s[i]) /\ \A j \in 1..(i - 1) : ~IsLetter(s[j])
             e == LetterRunEnd(s, b)
             hasNum == /\ e + 2 <= Len(s)
                       /\ s[e + 1] \in {"+", "-"}
                       /\ IsDigit(s[e + 2])
         IN  [ok     |-> TRUE,
              name   |-> SubSeq(s, b, e),
              sign   |-> IF hasNum THEN s[e + 1] ELSE "",
              digits |-> IF hasNum THEN SubSeq(s, e + 2, DigitRunEnd(s, e + 2))
                         ELSE <<>>]

\* variant: every name is taken for a key of the map
InLevelMap_AnyName(name) == name = name

\* the levelMap literal of getLogLevel
InLevelMap(name) ==
    name \in {LogLevelDebug, LogLevelInfo, LogLevelWarn, LogLevelError}
levelMap(name) ==
    IF name = LogLevelDebug THEN GoInt(LevelDebug)
    ELSE IF name = LogLevelInfo THEN GoInt(LevelInfo)
    ELSE IF name = LogLevelWarn THEN GoInt(LevelWarn)
    ELSE GoInt(LevelError)

\* getLogLevel from the submatches on: the lookup, the offset
LevelOfMatches(matches) ==
    IF ~matches.ok THEN levelMap(defaultLogLevel)
    ELSE IF ~InLevelMap(matches.name) THEN GoInt(0)   \* zero value of the lookup
    ELSE IF matches.digits # <<>>
         THEN IF matches.sign = "-"
              THEN Wrap(Sub(levelMap(matches.name), Atoi(matches.digits)))
              ELSE Wrap(Add(levelMap(matches.name), Atoi(matches.digits)))
         ELSE levelMap(matches.name)

\* slogscope.getLogLevel (the submatches are computed once)
getLogLevel(level) ==
    CHOOSE l \in {LevelOfMatches(matches) :
                    matches \in {FindStringSubmatch(ToUpper(level))}} : TRUE

(***************************************************************************)
(* The level tokens given to GetLogLevel.  A token is kept with the way it *)
(* was put together: name is the canonical name it spells (<<>> when it    *)
(* spells none), sign and digits its offset.                               *)
(***************************************************************************)
MaxOffset == 12         \* the small offsets are 0 .. MaxOffset

LowerOf == [c \in {UpperCase[i] : i \in 1..26} |->
               LowerCase[CHOOSE i \in 1..26 : UpperCase[i] = c]]
Lower(s) == [i \in 1..Len(s) |-> IF s[i] \in DOMAIN LowerOf THEN LowerOf[s[i]] ELSE s[i]]
Mixed(s) == [i \in 1..Len(s) |-> IF i = 1 THEN s[i] ELSE Lower(s)[i]]
LevelNames == {LogLevelDebug, LogLevelInfo, LogLevelWarn, LogLevelError}
Spellings(name) == {name, Lower(name), Mixed(name)}

\* the decimal numeral of n, 0 <= n < 100
Numeral(n) ==
    IF n < 10 THEN <<DigitChars[n + 1]>>
    ELSE <<DigitChars[(n \div 10) + 1], DigitChars[(n % 10) + 1]>>
SmallOffsets == {Numeral(n) : n \in 0..MaxOffset}
LargeOffsets ==
    { <<"0", "0", "7">>, <<"1", "0", "0">>,
      <<"9","2","2","3","3","7","2","0","3","6","8","5","4","7","7","5","8","0","0">>,
      <<"9","2","2","3","3","7","2","0","3","6","8","5","4","7","7","5","8","0","7">>,
      <<"9","2","2","3","3","7","2","0","3","6","8","5","4","7","7","5","8","0","8">>,
      <<"9","2","2","3","3","7","2","0","3","6","8","5","4","7","7","5","8","1","2">>,
      <<"9","9","9","9","9","9","9","9","9","9","9","9","9","9","9","9","9","9","9","9">> }
Offsets == SmallOffsets \cup LargeOffsets

NoToken == [called |-> FALSE, text |-> <<>>, name |-> <<>>, sign |-> "",
            digits |-> <<>>, trail |-> <<>>]
NamedTokens ==
    {[called |-> TRUE, text |-> sp, name |-> n, sign |-> "", digits |-> <<>>,
      trail |-> <<>>] :
        <<n, sp>> \in {<<n, sp>> \in LevelNames \X UNION {Spellings(m) : m \in LevelNames} :
                          sp \in Spellings(n)}}
OffsetTokens ==
    {[called |-> TRUE, text |-> t.text \o <<sg>> \o ds, name |-> t.name,
      sign |-> sg, digits |-> ds, trail |-> <<>>] :
        t \in NamedTokens, sg \in {"+", "-"}, ds \in Offsets}
\* tokens that spell no level name: no letter at all, or a first run of
\* letters that is none of the four names
OtherTexts ==
    { <<>>, <<"1", "2">>, <<"+", "5">>, <<"-">>, <<" ">>,
      <<"T", "R", "A", "C", "E">>, <<"t", "r", "a", "c", "e", "+", "5">>,
      <<"X", "I", "N", "F", "O">>, <<"I", "N", "F", "O", "S", "-", "2">>,
      <<"W", "A", "R", "N", "I", "N", "G">>, <<"d", "e", " ", "b", "u", "g">>,
      <<"E", "R", "R", "-", "1">>, <<"7", "x", "+", "3", " ", "D", "E", "B", "U", "G">> }
OtherTokens ==
    {[called |-> TRUE, text |-> t, name |-> <<>>, sign |-> "", digits |-> <<>>,
      trail |-> <<>>] :
        t \in OtherTexts}
\* what may follow a token: characters outside the grammar, and characters
\* that the pattern takes for more of the name or of the number
Trails ==
    { <<"!">>, <<" ", "x">>, <<".", "5">>, <<"-", "x">>, <<"+", "3">>, <<"5">>,
      <<"X">>, <<"s">>, <<"I", "N", "G">> }
\* the offsets of the tokens that are given with something after them
TrailedOffsets ==
    { <<"2">>, <<"1", "2">>, <<"0", "0", "7">>,
      <<"9","9","9","9","9","9","9","9","9","9","9","9","9","9","9","9","9","9","9","9">> }
\* a token spelling a level name, with or without an offset, followed by trail
TrailingTokens ==
    {[t EXCEPT !.text = t.text \o tr, !.trail = tr] :
        t \in {u \in NamedTokens \cup OffsetTokens :
                  \/ u.digits = <<>> /\ u.text \in {u.name, Lower(u.name)}
                  \/ u.digits \in TrailedOffsets
                        /\ u.text = Lower(u.name) \o <<u.sign>> \o u.digits},
        tr \in Trails}
Tokens == NamedTokens \cup OffsetTokens \cup OtherTokens \cup TrailingTokens

(***************************************************************************)
(* Config, Package (types.go) and the configurations used as inputs.       *)
(***************************************************************************)
Nil     == [isNil |-> TRUE]              \* a nil *Config
NilPath == "<nil>"                       \* a nil *string
AltFile == "alt.yml"
Paths   == {defaultConfigFile, AltFile}

PkgA == "app/a"
PkgB == "app/b"
Callers    == {PkgA}                     \* package names getCallerInfo yields
Severities == {GoInt(LevelWarn)}                \* severities of the log calls

DefaultConfig == [LogLevel |-> defaultLogLevel, Packages |-> <<>>]
CfgDebug == [LogLevel |-> LogLevelDebug, Packages |-> <<>>]
CfgError == [LogLevel |-> LogLevelError,
             Packages |-> <<[Name |-> PkgA, LogLevel |-> LogLevelDebug]>>]
\* the same package listed twice, with different levels
CfgTwice == [LogLevel |-> LogLevelError,
             Packages |-> <<[Name |-> PkgA, LogLevel |-> LogLevelError],
                            [Name |-> PkgA, LogLevel |-> LogLevelDebug]>>]
ApiConfigs == {CfgDebug, CfgError, CfgTwice}

(***************************************************************************)
(* The file system: every path is missing, unreadable (it exists but       *)
(* os.ReadFile and watcher.Add fail), or holds data; data is a YAML        *)
(* document or bytes that yaml.Unmarshal rejects.                          *)
(***************************************************************************)
Missing    == [kind |-> "missing"]
Unreadable == [kind |-> "unreadable"]
Garbage    == [kind |-> "garbage"]
NoData     == [kind |-> "none"]          \* no file access was made
DocInfo  == [kind |-> "yaml",
             log_level |-> <<"i", "n", "f", "o">>,
             packages  |-> <<[name |-> PkgA, log_level |-> LogLevelError],
                             [name |-> PkgB, log_level |-> <<"W", "a", "r", "n", "+", "2">>]>>]
DocWarn  == [kind |-> "yaml",
             log_level |-> <<"w", "a", "r", "n">>,
             packages  |-> <<[name |-> PkgA, log_level |-> <<"D", "e", "b", "u", "g">>]>>]
DocEmpty == [kind |-> "yaml", log_level |-> <<>>, packages |-> <<>>]
FileData  == {DocInfo, DocWarn, DocEmpty, Garbage}
WriteData == {DocWarn, Garbage}          \* what the environment writes
\* the file systems the program is started in
InitFs == {[p \in Paths |-> IF p = defaultConfigFile THEN DocInfo ELSE Garbage],
           [p \in Paths |-> IF p = defaultConfigFile THEN Missing ELSE Unreadable]}

\* yaml.Unmarshal(data, &cfg) with the yaml tags of types.go
Unmarshal(data) ==
    IF data.kind = "yaml"
    THEN [err |-> FALSE,
          cfg |-> [LogLevel |-> data.log_level,
                   Packages |-> [i \in 1..Len(data.packages) |->
                                   [Name     |-> data.packages[i].name,
                                    LogLevel |-> data.packages[i].log_level]]]]
    ELSE [err |-> TRUE, cfg |-> Nil]

(***************************************************************************)
(* Goroutines.  <<"c", 1>>: the goroutine of the application calling the   *)
(* API (the revert goroutines call the same methods concurrently with it); *)
(* <<"w", n>>: the n-th watcher goroutine started by                       *)
(* initConfigFileWatcher; <<"r", n>>: the n-th revert goroutine started by *)
(* UseConfigTemporarily.                                                   *)
(***************************************************************************)
\* the panic values of NewHandler
PanicNil    == "slog.Handler must not be nil"
PanicNested == "slog.Handler must not be of type *Handler"

Main    == <<"c", 1>>
Clients == {Main}
Free    == <<"free", 0>>                 \* ss.mu is unlocked
NoCh    == <<"w", 0>>                    \* ss.doneCh is nil

\* pc: the position; op, cfg, old, efw, i, data, found: the locals of the
\* operation in progress (cfg the configuration it installs, old / efw the
\* snapshot of UseConfigTemporarily, data the file loadConfig found, found
\* the kind of file initConfigFileWatcher found); path, events, attached, chClosed: a
\* watcher's subscription and its done channel; alone: history, no other
\* reconfiguration has run since this one began; gone: history, a watcher
\* had been armed and the file no longer existed when UseConfigTemporarily
\* was called; existed: history, the bound file existed when the operation
\* started; errs: what waits on watcher.Errors; passed: history, the
\* notifications the watcher has passed over.  Locals are cleared when the
\* operation ends.
ProcNone == [pc |-> "none", op |-> "", cfg |-> Nil, old |-> Nil, efw |-> FALSE,
             i |-> 0, path |-> "", events |-> <<>>, chClosed |-> FALSE,
             attached |-> FALSE, alone |-> TRUE, data |-> NoData,
             found |-> "none", arg |-> <<>>, bound |-> NilPath, read |-> NilPath,
             gone |-> FALSE, existed |-> FALSE, errs |-> 0, passed |-> 0]
\* prev: what the operation completed before this one was and left behind
NoPrev == [op |-> "none", cfg |-> Nil, config |-> Nil, table |-> {},
           armed |-> FALSE]
QNone == [op |-> "none", cfg |-> Nil, old |-> Nil, efw |-> FALSE,
          data |-> NoData, found |-> "none", prev |-> NoPrev,
          arg |-> <<>>, bound |-> NilPath, read |-> NilPath]
RdIdle == [pc |-> "idle", op |-> "", lvl |-> GoInt(0), pkg |-> "",
           global |-> GoInt(0),
           result |-> FALSE, cfg |-> Nil, clean |-> TRUE, seen |-> {}]

\* The application and the handler share memory in two ways: NewHandler
\* keeps the pointer opts.Config it is given ("pointer"), and a Config
\* passed or returned by value carries the slice Packages, whose elements
\* are not copied ("slice").  was: the configuration when it was handed over.
NoHold == [kind |-> "none", was |-> Nil]
Hold(kind, cfg) == [kind |-> kind, was |-> cfg]
\* a Config passed by value to UseConfig / UseConfigTemporarily, or returned
\* by GetConfig: its Packages elements are shared when it has any
HoldByValue(cfg) ==
    IF Len(cfg.Packages) > 0 THEN Hold("slice", cfg) ELSE NoHold

\* UseConfigTemporarily calls overlap when one is made while the revert of
\* another is still to come.  base, efw: the configuration and the watching
\* mode in force when the first of them was made; state: "open", or
\* "spoiled" once anything but these calls and their reverts reconfigured.
NoSeries == [state |-> "none", base |-> Nil, efw |-> FALSE]

VARIABLES
    fs,         \* path -> file
    handler,    \* "none", "constructing", "ready": progress of NewHandler
    wrapped,    \* the argument h of NewHandler (ss.slogh): "unset" before the call
    token,      \* the argument of the last GetLogLevel call, and how it was spelled
    level,      \* the slog.Level that call returned
    opts,       \* ss.opts: EnableFileWatcher, ConfigFile, Config
    pkgMap,     \* ss.pkgMap: set of <<name, level>>, one pair per name
    mu,         \* ss.mu: Free or the goroutine holding it
    doneCh,     \* ss.doneCh: NoCh or the watcher the channel belongs to
    procs,      \* goroutine -> its position and locals
    rd,         \* the logging goroutine: its GetConfig / Enabled call
    panicAt,    \* "" or the place of the panic that ended the program
    quiet,      \* history: the operation that completed last with no other
                \* reconfiguration in progress since it began (else QNone)
    committed,  \* history: opts.Config when initHandler last completed
    held,       \* what the application holds that shares memory with
                \* *ss.opts.Config, and the configuration as it was handed over
    series,     \* history: the temporary overrides that overlap, see NoSeries
    derived,    \* a handler returned by WithAttrs or WithGroup is in use
    env         \* counter for the bound: API calls made and file events so far

vars == <<fs, handler, wrapped, token, level, opts, pkgMap, mu, doneCh, procs, rd, panicAt, quiet,
          committed, held, series, derived, env>>

\* The program has not panicked.  A GetConfig or Enabled call that has its
\* result returns before any other goroutine takes its next step: the return
\* touches no shared state, so no behaviour is lost.
Running == panicAt = "" /\ rd.pc # "done"

\* the environment (API calls and file system events) acts MaxEnv times
EnvStep == env < MaxEnv

\* goroutine t exists and is at position pc
At(t, pc) == t \in DOMAIN procs /\ procs[t].pc = pc

Watchers  == {p \in DOMAIN procs : p[1] = "w"}
Reverters == {p \in DOMAIN procs : p[1] = "r"}

\* a revert is still to come or under way
Pending == \E r \in Reverters : procs[r].pc # "done"
\* something other than UseConfigTemporarily and its reverts reconfigures
Spoiled == IF series.state = "none" THEN series
           ELSE [series EXCEPT !.state = "spoiled"]

\* checkFileExists
checkFileExists(path) == fs[path].kind # "missing"

\* sync.Map Load / Store on the set-of-pairs representation
HasKey(m, k)  == \E e \in m : e[1] = k
Load(m, k)    == (CHOOSE e \in m : e[1] = k)[2]
\* variant: an entry that exists is kept
Store_KeepFirst(m, k, v) == IF \E e \in m : e[1] = k THEN m ELSE m \cup {<<k, v>>}

Store(m, k, v) == {e \in m : e[1] # k} \cup {<<k, v>>}

(***************************************************************************)
(* History bookkeeping.                                                    *)
(***************************************************************************)
BusyPcs == {"lc_lock", "lc_read", "ih_lock", "ih_clear", "ih_store",
            "ih_watch", "log", "closing"}
Busy(p) == procs[p].pc \in BusyPcs

\* goroutine t begins a reconfiguration with locals rec
Begin(t, rec) ==
    [p \in DOMAIN procs |->
        IF p = t
        THEN [rec EXCEPT !.alone =
                 /\ (procs[t].pc = "waiting" => procs[t].alone)
                 /\ \A q \in DOMAIN procs \ {t} : ~Busy(q)]
        ELSE IF Busy(p) \/ procs[p].pc = "waiting"
             THEN [procs[p] EXCEPT !.alone = FALSE]
             ELSE procs[p]]

\* the record left in quiet when goroutine t completes its operation
Completed(t) ==
    IF procs[t].alone
    THEN [op |-> procs[t].op, cfg |-> procs[t].cfg, old |-> procs[t].old,
          efw |-> procs[t].efw, data |-> procs[t].data,
          found |-> procs[t].found, prev |-> quiet.prev,
          arg |-> procs[t].arg, bound |-> procs[t].bound, read |-> procs[t].read]
    ELSE QNone

\* the record left in quiet when an operation begins: it remembers the
\* operation that completed alone just before, and the state it left
Starting ==
    [QNone EXCEPT !.prev =
        IF quiet.op = "none" THEN NoPrev
        ELSE [op |-> quiet.op, cfg |-> quiet.cfg, config |-> opts.Config,
              table |-> pkgMap,
              armed |-> doneCh # NoCh /\ ~procs[doneCh].chClosed]]

\* the logging goroutine's view of a step that leaves opts as o and pkgMap as m
Track(o, m) ==
    IF rd.pc = "idle" THEN rd
    ELSE [rd EXCEPT !.clean = @ /\ o.Config = opts.Config /\ m = pkgMap,
                    !.seen  = @ \cup {o.Config}]

Init ==
    /\ fs \in InitFs
    /\ handler = "none"
    /\ wrapped = "unset"
    /\ token = NoToken
    /\ level = GoInt(0)
    /\ held = NoHold
    /\ series = NoSeries
    /\ derived = FALSE
    /\ opts = [EnableFileWatcher |-> FALSE, ConfigFile |-> NilPath, Config |-> Nil]
    /\ pkgMap = {}
    /\ mu = Free
    /\ doneCh = NoCh
    /\ procs = [p \in Clients |-> [ProcNone EXCEPT !.pc = "idle"]]
    /\ rd = RdIdle
    /\ panicAt = ""
    /\ quiet = QNone
    /\ committed = Nil
    /\ env = 0

(***************************************************************************)
(* NewHandler (handler.go 15-68).  It panics on a nil or *Handler wrapped  *)
(* handler; otherwise it copies the options, defaults ConfigFile, loads    *)
(* the file when no Config was given, and runs initHandler on return.      *)
(***************************************************************************)
\* variant: the file is loaded whenever a path is bound, Config given or not
NewHandler_FileFirst(hk, efw, cf, cfg) ==
    /\ Running /\ handler = "none" /\ wrapped = "unset"
    /\ wrapped' = hk
    /\ IF hk \in {"nil", "Handler"}
       THEN /\ panicAt' = (IF hk = "nil" THEN PanicNil ELSE PanicNested)
            /\ UNCHANGED <<handler, opts, procs>>
       ELSE /\ handler' = "constructing"
            /\ opts' = [EnableFileWatcher |-> efw,
                        ConfigFile |-> IF cf = NilPath THEN defaultConfigFile ELSE cf,
                        Config |-> cfg]
            /\ procs' = [procs EXCEPT ![Main] =
                            [@ EXCEPT !.op = "NewHandler", !.cfg = cfg,
                                      !.pc = "lc_lock"]]
            /\ UNCHANGED panicAt
    /\ held' = IF hk \notin {"nil", "Handler"} /\ cfg # Nil
               THEN Hold("pointer", cfg) ELSE NoHold
    /\ UNCHANGED <<series, token, level, derived, fs, pkgMap, mu, doneCh, rd, quiet, committed, env>>

\* variant: a nil handler is wrapped like any other
NewHandler_NilAccepted(hk, efw, cf, cfg) ==
    /\ Running /\ handler = "none" /\ wrapped = "unset"
    /\ wrapped' = hk
    /\ IF hk = "Handler"
       THEN /\ panicAt' = (IF hk = "nil" THEN PanicNil ELSE PanicNested)
            /\ UNCHANGED <<handler, opts, procs>>
       ELSE /\ handler' = "constructing"
            /\ opts' = [EnableFileWatcher |-> efw,
                        ConfigFile |-> IF cf = NilPath THEN defaultConfigFile ELSE cf,
                        Config |-> cfg]
            /\ procs' = [procs EXCEPT ![Main] =
                            [@ EXCEPT !.op = "NewHandler", !.cfg = cfg,
                                      !.pc = IF cfg = Nil /\ opts'.ConfigFile # NilPath
                                             THEN "lc_lock" ELSE "ih_lock"]]
            /\ UNCHANGED panicAt
    /\ held' = IF hk \notin {"nil", "Handler"} /\ cfg # Nil
               THEN Hold("pointer", cfg) ELSE NoHold
    /\ UNCHANGED <<series, token, level, derived, fs, pkgMap, mu, doneCh, rd, quiet, committed, env>>

\* variant: a *Handler is wrapped like any other
NewHandler_NestedAccepted(hk, efw, cf, cfg) ==
    /\ Running /\ handler = "none" /\ wrapped = "unset"
    /\ wrapped' = hk
    /\ IF hk = "nil"
       THEN /\ panicAt' = (IF hk = "nil" THEN PanicNil ELSE PanicNested)
            /\ UNCHANGED <<handler, opts, procs>>
       ELSE /\ handler' = "constructing"
            /\ opts' = [EnableFileWatcher |-> efw,
                        ConfigFile |-> IF cf = NilPath THEN defaultConfigFile ELSE cf,
                        Config |-> cfg]
            /\ procs' = [procs EXCEPT ![Main] =
                            [@ EXCEPT !.op = "NewHandler", !.cfg = cfg,
                                      !.pc = IF cfg = Nil /\ opts'.ConfigFile # NilPath
                                             THEN "lc_lock" ELSE "ih_lock"]]
            /\ UNCHANGED panicAt
    /\ held' = IF hk \notin {"nil", "Handler"} /\ cfg # Nil
               THEN Hold("pointer", cfg) ELSE NoHold
    /\ UNCHANGED <<series, token, level, derived, fs, pkgMap, mu, doneCh, rd, quiet, committed, env>>

NewHandler(hk, efw, cf, cfg) ==
    /\ Running /\ handler = "none" /\ wrapped = "unset"
    /\ wrapped' = hk
    /\ IF hk \in {"nil", "Handler"}
       THEN /\ panicAt' = (IF hk = "nil" THEN PanicNil ELSE PanicNested)
            /\ UNCHANGED <<handler, opts, procs>>
       ELSE /\ handler' = "constructing"
            /\ opts' = [EnableFileWatcher |-> efw,
                        ConfigFile |-> IF cf = NilPath THEN defaultConfigFile ELSE cf,
                        Config |-> cfg]
            /\ procs' = [procs EXCEPT ![Main] =
                            [@ EXCEPT !.op = "NewHandler", !.cfg = cfg,
                                      !.pc = IF cfg = Nil /\ opts'.ConfigFile # NilPath
                                             THEN "lc_lock" ELSE "ih_lock"]]
            /\ UNCHANGED panicAt
    /\ held' = IF hk \notin {"nil", "Handler"} /\ cfg # Nil
               THEN Hold("pointer", cfg) ELSE NoHold
    /\ UNCHANGED <<series, token, level, derived, fs, pkgMap, mu, doneCh, rd, quiet, committed, env>>

(***************************************************************************)
(* loadConfig (slogscope.go 1039-1065).                                    *)
(***************************************************************************)
\* variant: the deferred unlock is missing
Unlock_Kept(t) == t

\* ss.mu.Unlock(), deferred in loadConfig and in initHandler: the owner of
\* the mutex after goroutine t has returned from the function
Unlock(t) == Free

LoadConfigLock(t) ==
    /\ Running /\ At(t, "lc_lock") /\ mu = Free
    /\ mu' = t
    /\ procs' = [procs EXCEPT ![t].pc = "lc_read"]
    /\ UNCHANGED <<series, held, token, level, wrapped, derived, fs, handler, opts, pkgMap, doneCh, rd, panicAt, quiet,
                   committed, env>>

\* variant: a file that cannot be loaded leaves the previous configuration
LoadResult_KeepPrevious(file) ==
    IF file.kind # "yaml" THEN opts.Config ELSE Unmarshal(file).cfg

\* what loadConfig leaves in opts.Config for the file found at the bound path
LoadResult(file) ==
    IF file.kind = "missing" THEN Nil              \* checkFileExists fails
    ELSE IF file.kind = "unreadable" THEN Nil      \* os.ReadFile fails
    ELSE IF Unmarshal(file).err THEN Nil           \* yaml.Unmarshal fails
    ELSE Unmarshal(file).cfg

\* variant: a missing config file is created empty
AfterLoad_Created(path) ==
    [fs EXCEPT ![path] = IF @.kind = "missing" THEN DocEmpty ELSE @]

\* the files after loadConfig looked at path: os.Stat in checkFileExists and
\* os.ReadFile only read
AfterLoad(path) == fs

LoadConfigRead(t) ==
    /\ Running /\ At(t, "lc_read")
    /\ fs' = AfterLoad(opts.ConfigFile)
    /\ opts' = [opts EXCEPT !.Config = LoadResult(fs[opts.ConfigFile])]
    /\ mu' = Unlock(t)
    /\ procs' = [procs EXCEPT ![t].pc = "ih_lock", ![t].data = fs[opts.ConfigFile],
                              ![t].read = opts.ConfigFile]
    /\ rd' = Track(opts', pkgMap)
    /\ held' = NoHold                       \* opts.Config is another object now
    /\ UNCHANGED <<series, token, level, wrapped, derived, handler, pkgMap, doneCh, panicAt, quiet, committed,
                   env>>

(***************************************************************************)
(* initHandler (slogscope.go 1008-1037).                                   *)
(***************************************************************************)
InitLock(t) ==
    /\ Running /\ At(t, "ih_lock") /\ mu = Free
    /\ mu' = t
    /\ opts' = IF opts.Config = Nil THEN [opts EXCEPT !.Config = DefaultConfig]
               ELSE opts
    /\ procs' = [procs EXCEPT ![t].pc = "ih_clear"]
    /\ rd' = Track(opts', pkgMap)
    /\ UNCHANGED <<series, held, token, level, wrapped, derived, fs, handler, pkgMap, doneCh, panicAt, quiet, committed,
                   env>>

\* variant: the scope table is not cleared before it is filled
InitClear_KeepEntries(t) ==
    /\ Running /\ At(t, "ih_clear")
    /\ pkgMap' = pkgMap
    /\ procs' = [procs EXCEPT ![t].i = 1,
                              ![t].pc = IF Len(opts.Config.Packages) = 0
                                        THEN "ih_watch" ELSE "ih_store"]
    /\ UNCHANGED <<series, held, token, level, wrapped, derived, fs, handler, opts, mu, doneCh, rd, panicAt, quiet, committed,
                   env>>

InitClear(t) ==
    /\ Running /\ At(t, "ih_clear")
    /\ pkgMap' = {}
    /\ procs' = [procs EXCEPT ![t].i = 1,
                              ![t].pc = IF Len(opts.Config.Packages) = 0
                                        THEN "ih_watch" ELSE "ih_store"]
    /\ rd' = Track(opts, pkgMap')
    /\ UNCHANGED <<series, held, token, level, wrapped, derived, fs, handler, opts, mu, doneCh, panicAt, quiet, committed,
                   env>>

\* variant: the table is built from the configuration the writer installed
\* itself, not from the one in force when it rebuilds
InitStore_OwnConfig(t) ==
    /\ Running /\ At(t, "ih_store")
    /\ LET own == IF procs[t].cfg # Nil /\ procs[t].i <= Len(procs[t].cfg.Packages)
                  THEN procs[t].cfg ELSE opts.Config
           v   == own.Packages[procs[t].i]
       IN  pkgMap' = Store(pkgMap, v.Name, getLogLevel(v.LogLevel))
    /\ procs' = [procs EXCEPT ![t].i = @ + 1,
                              ![t].pc = IF procs[t].i = Len(opts.Config.Packages)
                                        THEN "ih_watch" ELSE "ih_store"]
    /\ rd' = Track(opts, pkgMap')
    /\ UNCHANGED <<series, held, token, level, wrapped, derived, fs, handler, opts, mu, doneCh, panicAt, quiet, committed,
                   env>>

InitStore(t) ==
    /\ Running /\ At(t, "ih_store")
    /\ LET v == opts.Config.Packages[procs[t].i]
       IN  pkgMap' = Store(pkgMap, v.Name, getLogLevel(v.LogLevel))
    /\ procs' = [procs EXCEPT ![t].i = @ + 1,
                              ![t].pc = IF procs[t].i = Len(opts.Config.Packages)
                                        THEN "ih_watch" ELSE "ih_store"]
    /\ rd' = Track(opts, pkgMap')
    /\ UNCHANGED <<series, held, token, level, wrapped, derived, fs, handler, opts, mu, doneCh, panicAt, quiet, committed,
                   env>>

\* variant: the watcher is started without looking for the file
WatcherStarts_Unchecked(path) ==
    fs[path].kind # "unreadable"

\* initConfigFileWatcher (slogscope.go 934-1002): is a watcher started?
WatcherStarts(path) ==
    /\ checkFileExists(path)                \* else "-> file watcher is disabled"
    /\ fs[path].kind # "unreadable"         \* else watcher.Add fails

\* the goroutine initConfigFileWatcher starts
NewWatcher(path) ==
    [ProcNone EXCEPT !.pc = "armed", !.path = path, !.attached = TRUE]

\* where a goroutine continues when initHandler has returned
AfterInit(t) ==
    IF procs[t].op = "NewHandler" THEN "idle"
    ELSE IF procs[t].op = "reload" THEN "closing"
    ELSE "log"

\* variant: the watcher in place is not told to stop
CloseDoneCh_Skipped(ps) == ps

\* close(ss.doneCh) when it is not nil (slogscope.go 1029-1032), on the
\* goroutine table ps
CloseDoneCh(ps) ==
    IF doneCh # NoCh THEN [ps EXCEPT ![doneCh].chClosed = TRUE] ELSE ps

\* variant: the closed channel stays in ss.doneCh
Cleared_Kept(ch) == ch

\* ss.doneCh = nil after the close (slogscope.go 1031)
Cleared(ch) == NoCh

\* close doneCh, start the watcher, unlock (slogscope.go 1029-1037)
InitWatch(t) ==
    /\ Running /\ At(t, "ih_watch")
    /\ IF doneCh # NoCh /\ procs[doneCh].chClosed
       THEN /\ panicAt' = "close of closed channel"
            /\ UNCHANGED <<handler, mu, doneCh, procs, quiet, committed>>
       ELSE LET closed == CloseDoneCh(procs)
                arm == /\ opts.EnableFileWatcher
                       /\ opts.ConfigFile # NilPath
                       /\ WatcherStarts(opts.ConfigFile)
                w   == <<"w", Cardinality(Watchers) + 1>>
                me  == [closed[t] EXCEPT
                          !.pc = AfterInit(t), !.i = 0,
                          !.found = IF /\ opts.EnableFileWatcher
                                       /\ opts.ConfigFile # NilPath
                                    THEN fs[opts.ConfigFile].kind ELSE "none"]
                ps  == [closed EXCEPT ![t] = IF procs[t].op = "NewHandler"
                                             THEN [ProcNone EXCEPT !.pc = "idle"]
                                             ELSE me]
            IN  /\ doneCh' = IF arm THEN w ELSE Cleared(doneCh)
                /\ procs' = IF arm THEN ps @@ (w :> NewWatcher(opts.ConfigFile))
                            ELSE ps
                /\ mu' = Unlock(t)
                /\ committed' = opts.Config
                /\ IF procs[t].op = "NewHandler"
                   THEN /\ handler' = "ready"
                        /\ quiet' = [op |-> "NewHandler", cfg |-> me.cfg,
                                     old |-> Nil, efw |-> FALSE,
                                     data |-> me.data, found |-> me.found,
                                     prev |-> NoPrev, arg |-> <<>>,
                                     bound |-> NilPath, read |-> me.read]
                   ELSE UNCHANGED <<handler, quiet>>
                /\ UNCHANGED panicAt
    /\ UNCHANGED <<series, held, token, level, wrapped, derived, fs, opts, pkgMap, rd, env>>

(***************************************************************************)
(* UseConfig, UseConfigTemporarily, UseConfigFile (handler.go 104-160):    *)
(* the first critical section of each, then loadConfig / initHandler, then *)
(* the logger.Debug line that dereferences h.opts.Config.                  *)
(***************************************************************************)
\* variant: the file watcher setting is left as it was
UseConfigEffect_KeepWatcher(t, op, cfg) ==
    /\ mu = Free
    /\ opts' = [opts EXCEPT !.Config = cfg]
    /\ procs' = Begin(t, [procs[t] EXCEPT !.pc = "ih_lock", !.op = op,
                                          !.cfg = cfg, !.data = NoData,
                                          !.found = "none",
                                          !.existed = checkFileExists(opts.ConfigFile)])
    /\ quiet' = Starting
    /\ rd' = Track(opts', pkgMap)
    /\ held' = IF op = "revert" THEN NoHold ELSE HoldByValue(cfg)
    /\ UNCHANGED <<token, level, wrapped, derived, fs, handler, pkgMap, mu, doneCh, panicAt, committed>>

UseConfigEffect(t, op, cfg) ==
    /\ mu = Free
    /\ opts' = [opts EXCEPT !.EnableFileWatcher = FALSE, !.Config = cfg]
    /\ procs' = Begin(t, [procs[t] EXCEPT !.pc = "ih_lock", !.op = op,
                                          !.cfg = cfg, !.data = NoData,
                                          !.found = "none",
                                          !.existed = checkFileExists(opts.ConfigFile)])
    /\ quiet' = Starting
    /\ rd' = Track(opts', pkgMap)
    /\ held' = IF op = "revert" THEN NoHold ELSE HoldByValue(cfg)
    /\ UNCHANGED <<token, level, wrapped, derived, fs, handler, pkgMap, mu, doneCh, panicAt, committed>>

\* variant: the first of several paths is bound
UseConfigFileEffect_FirstOfMany(t, op, cfgFile) ==
    /\ mu = Free
    /\ LET bound == IF Len(cfgFile) >= 1 /\ cfgFile[1] # ""
                    THEN cfgFile[1] ELSE opts.ConfigFile
       IN  opts' = [opts EXCEPT !.EnableFileWatcher = TRUE,
                                !.ConfigFile = IF bound = NilPath
                                               THEN defaultConfigFile ELSE bound]
    /\ procs' = Begin(t, [procs[t] EXCEPT !.pc = "lc_lock", !.op = op,
                                          !.data = NoData, !.found = "none",
                                          !.arg = cfgFile,
                                          !.bound = opts.ConfigFile,
                                          !.existed = checkFileExists(opts'.ConfigFile)])
    /\ quiet' = Starting
    /\ rd' = Track(opts', pkgMap)
    /\ UNCHANGED <<held, token, level, wrapped, derived, fs, handler, pkgMap, mu, doneCh, panicAt, committed>>

UseConfigFileEffect(t, op, cfgFile) ==
    /\ mu = Free
    /\ LET bound == IF Len(cfgFile) = 1 /\ cfgFile[1] # ""
                    THEN cfgFile[1] ELSE opts.ConfigFile
       IN  opts' = [opts EXCEPT !.EnableFileWatcher = TRUE,
                                !.ConfigFile = IF bound = NilPath
                                               THEN defaultConfigFile ELSE bound]
    /\ procs' = Begin(t, [procs[t] EXCEPT !.pc = "lc_lock", !.op = op,
                                          !.data = NoData, !.found = "none",
                                          !.arg = cfgFile,
                                          !.bound = opts.ConfigFile,
                                          !.existed = checkFileExists(opts'.ConfigFile)])
    /\ quiet' = Starting
    /\ rd' = Track(opts', pkgMap)
    /\ UNCHANGED <<held, token, level, wrapped, derived, fs, handler, pkgMap, mu, doneCh, panicAt, committed>>

UseConfig(t, cfg) ==
    /\ Running /\ handler = "ready" /\ procs[t].pc = "idle"
    /\ EnvStep
    /\ env' = env + 1
    /\ series' = Spoiled
    /\ UseConfigEffect(t, "UseConfig", cfg)

UseConfigFile(t, cfgFile) ==
    /\ Running /\ handler = "ready" /\ procs[t].pc = "idle"
    /\ EnvStep
    /\ env' = env + 1
    /\ series' = Spoiled
    /\ UseConfigFileEffect(t, "UseConfigFile", cfgFile)

UseConfigTemporarily(t, cfg) ==
    /\ Running /\ handler = "ready" /\ procs[t].pc = "idle"
    /\ EnvStep
    /\ mu = Free
    /\ env' = env + 1
    /\ IF opts.Config = Nil
       THEN \* h.GetConfig() dereferences a nil *Config while h.mu is held
            /\ panicAt' = "UseConfigTemporarily"
            /\ mu' = t
            /\ UNCHANGED <<held, series, opts, procs, quiet, rd>>
       ELSE /\ opts' = [opts EXCEPT !.EnableFileWatcher = FALSE, !.Config = cfg]
            /\ procs' = Begin(t, [procs[t] EXCEPT
                                    !.pc = "ih_lock", !.op = "UseConfigTemporarily",
                                    !.cfg = cfg, !.old = opts.Config,
                                    !.efw = opts.EnableFileWatcher,
                                    !.gone = /\ doneCh # NoCh
                                             /\ ~checkFileExists(opts.ConfigFile),
                                    !.existed = checkFileExists(opts.ConfigFile),
                                    !.data = NoData])
            /\ quiet' = Starting
            /\ rd' = Track(opts', pkgMap)
            /\ held' = HoldByValue(cfg)
            /\ series' = IF Pending THEN series
                          ELSE [state |-> "open", base |-> opts.Config,
                                efw |-> opts.EnableFileWatcher]
            /\ UNCHANGED <<mu, panicAt>>
    /\ UNCHANGED <<token, level, wrapped, derived, fs, handler, pkgMap, doneCh, committed>>

\* variant: the goroutine is started but never reverts
NewReverter_Dropped(t) ==
    [ProcNone EXCEPT !.pc = "done"]

\* the goroutine UseConfigTemporarily starts (handler.go 129-136)
NewReverter(t) ==
    [ProcNone EXCEPT !.pc = "waiting", !.op = "revert", !.cfg = procs[t].cfg,
                     !.old = procs[t].old, !.efw = procs[t].efw,
                     !.gone = procs[t].gone, !.alone = procs[t].alone]

\* the last statements of the three Use* methods
LogConfig(t) ==
    /\ Running /\ At(t, "log")
    /\ IF opts.Config = Nil
       THEN /\ panicAt' = "log"
            /\ UNCHANGED <<procs, quiet>>
       ELSE LET r  == <<"r", Cardinality(Reverters) + 1>>
                ps == [procs EXCEPT ![t] =
                          [ProcNone EXCEPT !.pc = IF t[1] = "r" THEN "done" ELSE "idle"]]
            IN  /\ procs' = IF procs[t].op = "UseConfigTemporarily"
                            THEN ps @@ (r :> NewReverter(t)) ELSE ps
                /\ quiet' = Completed(t)
                /\ UNCHANGED panicAt
    /\ UNCHANGED <<series, held, token, level, wrapped, derived, fs, handler, opts, pkgMap, mu, doneCh, rd, committed,
                   env>>

\* variant: the revert installs the temporary configuration once more
Revert_Reapply(r) ==
    /\ Running /\ At(r, "waiting")
    /\ IF procs[r].efw
       THEN UseConfigFileEffect(r, "revert", <<>>)
       ELSE UseConfigEffect(r, "revert", procs[r].cfg)
    /\ UNCHANGED <<env, series>>

\* variant: the revert always restores the captured configuration statically
Revert_Static(r) ==
    /\ Running /\ At(r, "waiting")
    /\ UseConfigEffect(r, "revert", procs[r].old)
    /\ UNCHANGED <<env, series>>

\* time.After(revert) has fired: the revert goroutine calls UseConfigFile()
\* or UseConfig(oldCfg)
Revert(r) ==
    /\ Running /\ At(r, "waiting")
    /\ IF procs[r].efw
       THEN UseConfigFileEffect(r, "revert", <<>>)
       ELSE UseConfigEffect(r, "revert", procs[r].old)
    /\ UNCHANGED <<env, series>>

(***************************************************************************)
(* The watcher goroutine (slogscope.go 955-999): one select over the       *)
(* fsnotify event channel and doneCh; when both are ready either case may  *)
(* be taken.                                                               *)
(***************************************************************************)
\* the goroutine has returned; only its done channel is still referred to
Exited(w) == [ProcNone EXCEPT !.pc = "exited", !.chClosed = procs[w].chClosed]

\* variant: a write event is dropped like an event of any other kind
WatcherEvent_DropWrite(w) ==
    /\ Running /\ At(w, "armed")
    /\ procs[w].events # <<>>
    /\ IF Head(procs[w].events) \in {"Remove", "Rename"}
       THEN procs' = [procs EXCEPT ![w] = Exited(w)]
       ELSE procs' = [procs EXCEPT ![w].events = Tail(@)]
    /\ UNCHANGED <<series, held, token, level, wrapped, derived, fs, handler, opts, pkgMap, mu, doneCh, rd, panicAt, quiet,
                   committed, env>>

\* variant: a remove or rename event reloads like a write event
WatcherEvent_ReloadAlways(w) ==
    /\ Running /\ At(w, "armed")
    /\ procs[w].events # <<>>
    /\ procs' = Begin(w, [procs[w] EXCEPT !.pc = "lc_lock", !.op = "reload",
                                          !.existed = checkFileExists(opts.ConfigFile),
                                          !.events = <<>>])
    /\ quiet' = Starting
    /\ series' = Spoiled
    /\ UNCHANGED <<held, token, level, wrapped, derived, fs, handler, opts, pkgMap, mu, doneCh, rd, panicAt, committed,
                   env>>

\* case event := <-watcher.Events
WatcherEvent(w) ==
    /\ Running /\ At(w, "armed")
    /\ procs[w].events # <<>>
    /\ LET ev == Head(procs[w].events)
       IN  IF ev \in {"Remove", "Rename"}
           THEN \* closeWatcher(); return
                /\ procs' = [procs EXCEPT ![w] = Exited(w)]
                /\ UNCHANGED <<quiet, series>>
           ELSE IF ev = "Write"
           THEN \* ss.loadConfig().initHandler(); no further event is received
                /\ procs' = Begin(w, [procs[w] EXCEPT !.pc = "lc_lock",
                                                      !.op = "reload",
                                                      !.existed = checkFileExists(opts.ConfigFile),
                                                      !.events = <<>>])
                /\ quiet' = Starting
                /\ series' = Spoiled
           ELSE \* any other event: next iteration of the loop
                /\ procs' = [procs EXCEPT ![w].events = Tail(@),
                                          ![w].passed = @ + 1]
                /\ UNCHANGED <<quiet, series>>
    /\ UNCHANGED <<held, token, level, wrapped, derived, fs, handler, opts, pkgMap, mu, doneCh, rd, panicAt, committed,
                   env>>

\* case <-doneCh: closeWatcher(); return
\* variant: an error of the watcher ends the goroutine
WatcherError_Exits(w) ==
    /\ Running /\ At(w, "armed")
    /\ procs[w].errs > 0
    /\ procs' = [procs EXCEPT ![w] = [Exited(w) EXCEPT !.passed = procs[w].passed + 1]]
    /\ UNCHANGED <<series, held, token, level, wrapped, derived, fs, handler, opts, pkgMap, mu, doneCh, rd, panicAt, quiet,
                   committed, env>>

\* case err := <-watcher.Errors: the error is logged, next iteration
WatcherError(w) ==
    /\ Running /\ At(w, "armed")
    /\ procs[w].errs > 0
    /\ procs' = [procs EXCEPT ![w].errs = @ - 1, ![w].passed = @ + 1]
    /\ UNCHANGED <<series, held, token, level, wrapped, derived, fs, handler, opts, pkgMap, mu, doneCh, rd, panicAt, quiet,
                   committed, env>>

\* variant: a closed done channel is not noticed, the goroutine keeps waiting
WatcherDone_Ignored(w) ==
    /\ Running /\ At(w, "armed")
    /\ procs[w].chClosed
    /\ procs[w].events # <<>>
    /\ procs' = [procs EXCEPT ![w].events = <<>>]
    /\ UNCHANGED <<series, held, token, level, wrapped, derived, fs, handler, opts, pkgMap, mu, doneCh, rd, panicAt, quiet,
                   committed, env>>

WatcherDone(w) ==
    /\ Running /\ At(w, "armed")
    /\ procs[w].chClosed
    /\ procs' = [procs EXCEPT ![w] = Exited(w)]
    /\ UNCHANGED <<series, held, token, level, wrapped, derived, fs, handler, opts, pkgMap, mu, doneCh, rd, panicAt, quiet,
                   committed, env>>

\* variant: after the reload the goroutine goes on receiving events
WatcherClose_Loop(w) ==
    /\ Running /\ At(w, "closing")
    /\ procs' = [procs EXCEPT ![w].pc = "armed", ![w].op = ""]
    /\ quiet' = Completed(w)
    /\ UNCHANGED <<series, held, token, level, wrapped, derived, fs, handler, opts, pkgMap, mu, doneCh, rd, panicAt,
                   committed, env>>

\* closeWatcher(); return after the reload of a write event
WatcherClose(w) ==
    /\ Running /\ At(w, "closing")
    /\ procs' = [procs EXCEPT ![w] = Exited(w)]
    /\ quiet' = Completed(w)
    /\ UNCHANGED <<series, held, token, level, wrapped, derived, fs, handler, opts, pkgMap, mu, doneCh, rd, panicAt,
                   committed, env>>

(***************************************************************************)
(* The environment: the bound file and what fsnotify reports of it to the  *)
(* watchers that are still attached to the file and still receive; what a  *)
(* subscription gets after its goroutine left the select is never read.    *)
(***************************************************************************)
Notify(path, ev, detach) ==
    [p \in DOMAIN procs |->
        IF p[1] = "w" /\ procs[p].pc = "armed" /\ procs[p].attached
                      /\ procs[p].path = path
        THEN [procs[p] EXCEPT !.events = Append(@, ev),
                              !.attached = ~detach]
        ELSE procs[p]]

FsWrite(path, data) ==
    /\ Running /\ EnvStep
    /\ path = opts.ConfigFile
    /\ fs[path] \in FileData
    /\ fs' = [fs EXCEPT ![path] = data]
    /\ procs' = Notify(path, "Write", FALSE)
    /\ env' = env + 1
    /\ UNCHANGED <<series, held, token, level, wrapped, derived, handler, opts, pkgMap, mu, doneCh, rd, panicAt, quiet,
                   committed>>

FsRemove(path) ==
    /\ Running /\ EnvStep
    /\ path = opts.ConfigFile
    /\ fs[path] # Missing
    /\ fs' = [fs EXCEPT ![path] = Missing]
    /\ procs' = Notify(path, "Remove", TRUE)
    /\ env' = env + 1
    /\ UNCHANGED <<series, held, token, level, wrapped, derived, handler, opts, pkgMap, mu, doneCh, rd, panicAt, quiet,
                   committed>>

FsRename(path) ==
    /\ Running /\ EnvStep
    /\ path = opts.ConfigFile
    /\ fs[path] # Missing
    /\ fs' = [fs EXCEPT ![path] = Missing]
    /\ procs' = Notify(path, "Rename", TRUE)
    /\ env' = env + 1
    /\ UNCHANGED <<series, held, token, level, wrapped, derived, handler, opts, pkgMap, mu, doneCh, rd, panicAt, quiet,
                   committed>>

\* what fsnotify reports besides write, remove and rename
OtherEvents == {"Chmod", "Create"}

\* an event of another kind on the bound file: its content stays
FsOther(path, ev) ==
    /\ Running /\ EnvStep
    /\ path = opts.ConfigFile
    /\ fs[path] # Missing
    /\ \E w \in Watchers : procs[w].pc = "armed" /\ procs[w].attached
                            /\ procs[w].path = path
    /\ procs' = Notify(path, ev, FALSE)
    /\ env' = env + 1
    /\ UNCHANGED <<series, held, token, level, wrapped, derived, fs, handler, opts, pkgMap, mu, doneCh, rd, panicAt, quiet,
                   committed>>

\* fsnotify reports an error to a watcher that is receiving
FsError(w) ==
    /\ Running /\ EnvStep
    /\ At(w, "armed") /\ procs[w].attached
    /\ procs' = [procs EXCEPT ![w].errs = @ + 1]
    /\ env' = env + 1
    /\ UNCHANGED <<series, held, token, level, wrapped, derived, fs, handler, opts, pkgMap, mu, doneCh, rd, panicAt, quiet,
                   committed>>

FsCreate(path, data) ==
    /\ Running /\ EnvStep
    /\ path = opts.ConfigFile
    /\ fs[path] = Missing
    /\ fs' = [fs EXCEPT ![path] = data]
    /\ env' = env + 1
    /\ UNCHANGED <<series, held, token, level, wrapped, derived, handler, opts, pkgMap, mu, doneCh, procs, rd, panicAt, quiet,
                   committed>>

(***************************************************************************)
(* The logging goroutine: GetConfig (handler.go 98-100) and Enabled        *)
(* (handler.go 70-83), neither of which takes ss.mu.                       *)
(***************************************************************************)
GetConfig ==
    /\ Running /\ handler = "ready" /\ rd.pc = "idle" /\ EnvStep
    /\ env' = env + 1
    /\ IF opts.Config = Nil
       THEN panicAt' = "GetConfig" /\ UNCHANGED <<rd, held>>
       ELSE /\ rd' = [RdIdle EXCEPT !.pc = "done", !.op = "GetConfig",
                                    !.cfg = opts.Config,
                                    !.seen = {opts.Config, committed}]
            /\ held' = IF held.kind = "none" THEN HoldByValue(opts.Config)
                       ELSE held
            /\ UNCHANGED panicAt
    /\ UNCHANGED <<series, token, level, wrapped, derived, fs, handler, opts, pkgMap, mu, doneCh, procs, quiet,
                   committed>>

\* globalLevel := h.getLogLevel(h.opts.Config.LogLevel)
EnabledGlobal(lvl, pkg) ==
    /\ Running /\ handler = "ready" /\ rd.pc = "idle" /\ EnvStep
    /\ env' = env + 1
    /\ IF opts.Config = Nil
       THEN panicAt' = "Enabled" /\ UNCHANGED rd
       ELSE /\ rd' = [RdIdle EXCEPT !.pc = "load", !.op = "Enabled",
                                    !.lvl = lvl, !.pkg = pkg,
                                    !.global = getLogLevel(opts.Config.LogLevel),
                                    !.seen = {opts.Config, committed}]
            /\ UNCHANGED panicAt
    /\ UNCHANGED <<series, held, token, level, wrapped, derived, fs, handler, opts, pkgMap, mu, doneCh, procs, quiet,
                   committed>>

\* variant: an override can only raise the threshold above the global level
EnabledResult_GlobalFloor(m, global, lvl, pkg) ==
    /\ Geq(lvl, global)
    /\ HasKey(m, pkg) => Geq(lvl, Load(m, pkg))

\* the decision of Enabled (handler.go 73-82) on the map m it loads from
EnabledResult(m, global, lvl, pkg) ==
    IF HasKey(m, pkg) THEN Geq(lvl, Load(m, pkg)) ELSE Geq(lvl, global)

\* variant: Enabled waits for ss.mu before it looks at the table
EnabledLoad_Locked ==
    /\ Running /\ rd.pc = "load" /\ mu = Free
    /\ rd' = [rd EXCEPT !.pc = "done",
                        !.result = EnabledResult(pkgMap, rd.global, rd.lvl, rd.pkg)]
    /\ UNCHANGED <<series, held, token, level, wrapped, derived, fs, handler, opts, pkgMap, mu, doneCh, procs, panicAt, quiet,
                   committed, env>>

\* h.pkgMap.Load(cInfo.PackageName) and the comparison
EnabledLoad ==
    /\ Running /\ rd.pc = "load"
    /\ rd' = [rd EXCEPT !.pc = "done",
                        !.result = EnabledResult(pkgMap, rd.global, rd.lvl, rd.pkg)]
    /\ UNCHANGED <<series, held, token, level, wrapped, derived, fs, handler, opts, pkgMap, mu, doneCh, procs, panicAt, quiet,
                   committed, env>>

\* the threshold of the wrapped handler: slog.NewTextHandler(&buf, nil) and
\* slog.NewJSONHandler(&buf, nil) enable from slog.LevelInfo
WrappedLevel == GoInt(LevelInfo)

\* h.WithAttrs(attrs) or h.WithGroup(name) (handler.go 89-95): the
\* application takes h.slogh.WithAttrs(attrs) or h.slogh.WithGroup(name),
\* a handler the wrapped handler derives from itself, and logs through it
WithAttrs ==
    /\ Running /\ handler = "ready" /\ ~derived
    /\ derived' = TRUE
    /\ UNCHANGED <<fs, handler, wrapped, token, level, opts, pkgMap, mu, doneCh, procs, rd,
                   panicAt, quiet, committed, held, series, env>>

\* Enabled of the derived handler: the wrapped handler's own decision for
\* the severity; the calling package and the scope table are not consulted
DerivedEnabled(lvl, pkg) ==
    /\ Running /\ derived /\ rd.pc = "idle" /\ EnvStep
    /\ env' = env + 1
    /\ rd' = [RdIdle EXCEPT !.pc = "done", !.op = "DerivedEnabled",
                            !.lvl = lvl, !.pkg = pkg,
                            !.result = Geq(lvl, WrappedLevel)]
    /\ UNCHANGED <<fs, handler, wrapped, derived, token, level, opts, pkgMap, mu, doneCh,
                   procs, panicAt, quiet, committed, held, series>>

\* the call has returned and its result has been used
Return ==
    /\ panicAt = "" /\ rd.pc = "done"
    /\ rd' = RdIdle
    /\ UNCHANGED <<series, held, token, level, wrapped, derived, fs, handler, opts, pkgMap, mu, doneCh, procs, panicAt, quiet,
                   committed, env>>

(***************************************************************************)
(* The application assigns through what it holds: a field of the Config it *)
(* gave to NewHandler by pointer, or an element of a Packages slice it     *)
(* passed or received by value.  Only the object opts.Config points to is  *)
(* followed, and only while no goroutine keeps a copy of it (oldCfg).      *)
(***************************************************************************)
ModifiedLevel == LogLevelWarn
Modified(cfg, kind) ==
    IF kind = "pointer" THEN [cfg EXCEPT !.LogLevel = ModifiedLevel]
    ELSE [cfg EXCEPT !.Packages[1].LogLevel = ModifiedLevel]

ModifyHeld ==
    /\ Running /\ handler = "ready" /\ EnvStep
    /\ held.kind # "none"
    /\ \A p \in DOMAIN procs : ~Busy(p) /\ procs[p].pc # "waiting"
    /\ Modified(opts.Config, held.kind) # opts.Config
    /\ opts' = [opts EXCEPT !.Config = Modified(opts.Config, held.kind)]
    /\ rd' = Track(opts', pkgMap)
    /\ quiet' = QNone
    /\ series' = Spoiled
    /\ env' = env + 1
    /\ UNCHANGED <<held, token, level, wrapped, derived, fs, handler, pkgMap, mu, doneCh, procs, panicAt,
                   committed>>

(***************************************************************************)
(* GetLogLevel applied to a token.  The function reads and writes nothing  *)
(* of the handler, so it is explored by itself.                            *)
(***************************************************************************)
GetLogLevel(tok) ==
    /\ token' = tok
    /\ level' = getLogLevel(tok.text)
    /\ UNCHANGED <<fs, handler, wrapped, derived, opts, pkgMap, mu, doneCh, procs, rd,
                   panicAt, quiet, committed, held, series, env>>

LevelNext == \E tok \in Tokens : GetLogLevel(tok)

LevelSpec == Init /\ [][LevelNext]_vars

(***************************************************************************)
(* The specification.                                                      *)
(***************************************************************************)
\* the identities goroutines can have within the bounds
Threads == Clients \cup {<<k, n>> : k \in {"w", "r"}, n \in 1..(2 * MaxEnv + 1)}

Next ==
    \/ \E hk \in {"nil", "Handler", "other"}, efw \in BOOLEAN,
          cf \in {NilPath, AltFile}, cfg \in {Nil, CfgDebug} :
            NewHandler(hk, efw, cf, cfg)
    \/ \E t \in Threads : LoadConfigLock(t)
    \/ \E t \in Threads : LoadConfigRead(t)
    \/ \E t \in Threads : InitLock(t)
    \/ \E t \in Threads : InitClear(t)
    \/ \E t \in Threads : InitStore(t)
    \/ \E t \in Threads : InitWatch(t)
    \/ \E t \in Clients, cfg \in ApiConfigs : UseConfig(t, cfg)
    \/ \E t \in Clients : UseConfigTemporarily(t, CfgError)
    \/ \E t \in Clients, cfgFile \in {<<>>, <<"">>, <<AltFile>>,
                                     <<defaultConfigFile, AltFile>>} :
            UseConfigFile(t, cfgFile)
    \/ \E t \in Threads : LogConfig(t)
    \/ \E r \in Threads : Revert(r)
    \/ \E w \in Threads : WatcherEvent(w)
    \/ \E w \in Threads : WatcherError(w)
    \/ \E w \in Threads : WatcherDone(w)
    \/ \E w \in Threads : WatcherClose(w)
    \/ \E path \in Paths, data \in WriteData : FsWrite(path, data)
    \/ \E path \in Paths : FsRemove(path)
    \/ \E path \in Paths : FsRename(path)
    \/ \E path \in Paths : FsCreate(path, DocEmpty)
    \/ \E path \in Paths, ev \in OtherEvents : FsOther(path, ev)
    \/ \E w \in Threads : FsError(w)
    \/ GetConfig
    \/ ModifyHeld
    \/ \E lvl \in Severities, pkg \in Callers : EnabledGlobal(lvl, pkg)
    \/ EnabledLoad
    \/ WithAttrs
    \/ \E lvl \in Severities, pkg \in Callers : DerivedEnabled(lvl, pkg)
    \/ Return

Spec == Init /\ [][Next]_vars

(***************************************************************************)
(* Fairness: as long as some goroutine can take its next step, one of them  *)
(* does; the environment (API calls, file events, the revert timer) is not *)
(* forced.                                                                 *)
(***************************************************************************)
GoroutineStep ==
    \E t \in Threads :
        \/ LoadConfigLock(t) \/ LoadConfigRead(t)
        \/ InitLock(t) \/ InitClear(t) \/ InitStore(t) \/ InitWatch(t)
        \/ LogConfig(t)
        \/ WatcherEvent(t) \/ WatcherError(t) \/ WatcherDone(t) \/ WatcherClose(t)

Fairness == WF_vars(GoroutineStep)

FairSpec == Spec /\ Fairness

\* time.After fires: a revert goroutine that waits eventually proceeds; so
\* does a logging goroutine inside Enabled or about to return
TimerFairness ==
    WF_vars(\/ GoroutineStep
            \/ \E r \in Threads : Revert(r)
            \/ EnabledLoad
            \/ Return)

TimerSpec == Spec /\ TimerFairness

(***************************************************************************)
(* What a configuration means: the scope table initHandler builds from it  *)
(* (a later entry for a name replaces an earlier one) and the decision     *)
(* Enabled takes when that configuration alone is in force.                *)
(***************************************************************************)
TableOf(cfg) ==
    LET P == cfg.Packages
    IN  {<<P[k].Name, getLogLevel(P[k].LogLevel)>> :
            k \in {i \in 1..Len(P) :
                      \A j \in (i + 1)..Len(P) : P[j].Name # P[i].Name}}

DecideBy(cfg, lvl, pkg) ==
    IF HasKey(TableOf(cfg), pkg)
    THEN Geq(lvl, Load(TableOf(cfg), pkg))
    ELSE Geq(lvl, getLogLevel(cfg.LogLevel))

\* cfg is the configuration in force
Active(cfg) == opts.Config = cfg /\ pkgMap = TableOf(cfg)

\* a call of the logging goroutine that has just returned agrees with cfg;
\* for Enabled, a call during which neither opts.Config nor pkgMap changed
ReadsAgree(cfg) ==
    rd.pc = "done" =>
        /\ rd.op = "GetConfig" => rd.cfg = cfg
        /\ rd.op = "Enabled" /\ rd.clean => rd.result = DecideBy(cfg, rd.lvl, rd.pkg)

\* the watcher doneCh belongs to has not been told to stop
Armed == doneCh # NoCh /\ ~procs[doneCh].chClosed

(***************************************************************************)
(* C1                                                                      *)
(***************************************************************************)
\* C1: an Enabled call that runs with no reconfiguration in between returns
\* true exactly when the record's level is at least the override of the
\* caller's package if the scope table has one (whether that is above or
\* below the global level), and at least the global level otherwise.
C1_EnabledDecision ==
    (rd.pc = "done" /\ rd.op = "Enabled" /\ rd.clean) =>
        rd.result = IF HasKey(pkgMap, rd.pkg)
                    THEN Geq(rd.lvl, Load(pkgMap, rd.pkg))
                    ELSE Geq(rd.lvl, getLogLevel(opts.Config.LogLevel))

\* an override decides against the global level: the record passes although
\* it is below the global level
C1_Witness ==
    /\ rd.pc = "done" /\ rd.op = "Enabled" /\ rd.clean
    /\ HasKey(pkgMap, rd.pkg)
    /\ rd.result
    /\ Less(rd.lvl, getLogLevel(opts.Config.LogLevel))

(***************************************************************************)
(* C2                                                                      *)
(***************************************************************************)
\* C2: when UseConfig(cfg) has returned and no other reconfiguration ran
\* meanwhile, opts.Config is cfg, the scope table is exactly the table of
\* cfg, GetConfig returns cfg and Enabled decides by cfg alone.
C2_UseConfigApplied ==
    quiet.op = "UseConfig" =>
        /\ Active(quiet.cfg)
        /\ ReadsAgree(quiet.cfg)

C2_Witness ==
    /\ quiet.op = "UseConfig" /\ quiet.cfg = CfgError
    /\ rd.pc = "done" /\ rd.op = "Enabled" /\ rd.clean

(***************************************************************************)
(* C3                                                                      *)
(***************************************************************************)
\* C3: starting from a static configuration C, after UseConfigTemporarily(T, d)
\* has returned T is in force (GetConfig and Enabled use T) until the revert
\* fires, and when the revert has completed C is in force again; no other
\* reconfiguration runs meanwhile.
C3_TemporaryThenRestored ==
    /\ (quiet.op = "UseConfigTemporarily" /\ ~quiet.efw) =>
            /\ Active(quiet.cfg)
            /\ ReadsAgree(quiet.cfg)
    /\ (quiet.op = "revert" /\ ~quiet.efw) =>
            /\ Active(quiet.old)
            /\ ReadsAgree(quiet.old)

\* the revert has restored a configuration that differs from the temporary one
C3_Witness ==
    /\ quiet.op = "revert" /\ ~quiet.efw
    /\ quiet.old # CfgError
    /\ \E r \in Threads : At(r, "done")

(***************************************************************************)
(* C4                                                                      *)
(***************************************************************************)
\* C4: the revert of UseConfigTemporarily goes through UseConfigFile when the
\* handler was file-watched at the call (the file is read again, its
\* configuration is in force when it decodes, the watcher flag is on and a
\* watcher is armed when the file can be watched), and through UseConfig of
\* the captured configuration when it was static (captured configuration in
\* force, no file read, watcher flag off, no watcher).
C4_RevertPath ==
    quiet.op = "revert" =>
        IF quiet.efw
        THEN /\ opts.EnableFileWatcher
             /\ quiet.data # NoData
             /\ quiet.data.kind = "yaml" => Active(Unmarshal(quiet.data).cfg)
             /\ quiet.found \in {"yaml", "garbage"} => Armed
        ELSE /\ ~opts.EnableFileWatcher
             /\ quiet.data = NoData
             /\ Active(quiet.old)
             /\ doneCh = NoCh

\* a file-watched handler has reverted: file decoded again, watcher armed
C4_Witness ==
    /\ quiet.op = "revert" /\ quiet.efw
    /\ quiet.data.kind = "yaml"
    /\ opts.Config # CfgError
    /\ Armed

(***************************************************************************)
(* C5                                                                      *)
(***************************************************************************)
\* the only event so far is one write of decodable content to the watched
\* file, delivered to the armed watcher
SingleWrite ==
    /\ handler = "ready" /\ env = 1
    /\ opts.EnableFileWatcher
    /\ fs[opts.ConfigFile].kind = "yaml"
    /\ doneCh # NoCh /\ At(doneCh, "armed")
    /\ procs[doneCh].events = <<"Write">>

\* the content of the file is in force and a fresh watcher is armed on it
Reloaded ==
    /\ quiet.op = "reload"
    /\ quiet.data = fs[opts.ConfigFile]
    /\ Active(Unmarshal(fs[opts.ConfigFile]).cfg)
    /\ doneCh # NoCh /\ At(doneCh, "armed")
    /\ procs[doneCh].path = opts.ConfigFile
    /\ procs[doneCh].attached /\ ~procs[doneCh].chClosed
    /\ procs[doneCh].events = <<>>

\* C5: a single write to the watched file, with no other call or file event
\* after it, is eventually followed by the configuration decoded from the new
\* content being in force, the scope table rebuilt from it, and a new watcher
\* armed on the file.
C5_WriteReloads == SingleWrite ~> (Reloaded \/ env > 1)

C5_Witness ==
    /\ env = 1 /\ Reloaded
    /\ opts.Config = Unmarshal(DocWarn).cfg
    /\ \E w \in Threads : At(w, "exited") /\ procs[w].chClosed

(***************************************************************************)
(* C6                                                                      *)
(***************************************************************************)
\* C6: the step in which the file is renamed or removed, and the step in
\* which the watcher takes the remove or rename event, leave opts (hence what
\* GetConfig returns) and the scope table as they were; the watcher exits
\* without reloading and without arming another watcher.
C6_RemoveRenameKeepsConfig ==
    [][/\ \A path \in Paths :
            (fs[path] # Missing /\ fs'[path] = Missing) =>
                UNCHANGED <<opts, pkgMap, doneCh>>
       /\ \A w \in Threads :
            ( /\ At(w, "armed")
              /\ procs[w].events # <<>>
              /\ Head(procs[w].events) \in {"Remove", "Rename"}
              /\ procs'[w].pc # "armed" ) =>
                /\ procs'[w].pc = "exited"
                /\ UNCHANGED <<opts, pkgMap, doneCh, mu>>]_vars

\* the file is gone, its watcher has exited on the event (nobody closed its
\* done channel) and the configuration loaded from the file is still in force
C6_Witness ==
    /\ handler = "ready" /\ panicAt = ""
    /\ fs[opts.ConfigFile] = Missing
    /\ doneCh # NoCh /\ At(doneCh, "exited") /\ ~procs[doneCh].chClosed
    /\ Active(Unmarshal(DocInfo).cfg)

C9_AlwaysUsableConfig ==
    handler = "ready" =>
        /\ opts.Config # Nil
        /\ panicAt \notin {"GetConfig", "Enabled", "UseConfigTemporarily", "log"}

(***************************************************************************)
(* C10                                                                     *)
(***************************************************************************)
\* C10: the result of every Enabled call, also one that overlaps a
\* reconfiguration, is the decision of one single configuration: the one in
\* force when the call began or one installed while it ran.
C10_NoMixedDecision ==
    (rd.pc = "done" /\ rd.op = "Enabled") =>
        \E c \in rd.seen \ {Nil} : rd.result = DecideBy(c, rd.lvl, rd.pkg)

(***************************************************************************)
(* C11                                                                     *)
(***************************************************************************)
\* C11: the scope table an Enabled call loads from is always a whole one: the
\* table of the configuration in force when the call began or of one
\* installed while it ran, never a cleared or partly filled table.
C11_NoPartialTable ==
    (rd.pc = "done" /\ rd.op = "Enabled") =>
        \E c \in rd.seen \ {Nil} : pkgMap = TableOf(c)

(***************************************************************************)
(* C12                                                                     *)
(***************************************************************************)
\* file watching is switched off, every UseConfig, UseConfigTemporarily,
\* UseConfigFile call and every revert that was started has returned, and the
\* application has not written into the configuration
Static ==
    /\ handler = "ready"
    /\ ~opts.EnableFileWatcher
    /\ \A p \in DOMAIN procs : p[1] \in {"c", "r"} => ~Busy(p)
    /\ held.kind # "none" => opts.Config = held.was   \* not modified from outside

\* C12: once UseConfig or UseConfigTemporarily has returned, and until
\* UseConfigFile is called or a revert runs, the configuration and the scope
\* table stay the ones that call left: no watcher goroutine changes them,
\* whenever it received its write event.
C12_StaticIgnoresFileEvents ==
    Static => (opts.Config = committed /\ pkgMap = TableOf(committed))

(***************************************************************************)
(* C13                                                                     *)
(***************************************************************************)
\* the identities of revert goroutines, and those started so far
RevertIds == {t \in Threads : t[1] = "r"}
Started(ps) == DOMAIN ps \cap RevertIds

\* one step as the revert goroutines see it
RevertDiscipline ==
    /\ \A t \in Clients :
          \* a returning UseConfigTemporarily call has started exactly one
          (At(t, "log") /\ procs[t].op = "UseConfigTemporarily"
                        /\ procs'[t].pc = "idle") =>
              Cardinality(Started(procs')) = Cardinality(Started(procs)) + 1
    /\ \A r \in RevertIds :
          \* a new one waits, and carries the snapshot of the call that started it
          /\ (r \notin DOMAIN procs /\ r \in DOMAIN procs') =>
                /\ procs'[r].pc = "waiting"
                /\ \E t \in Clients :
                      /\ At(t, "log") /\ procs[t].op = "UseConfigTemporarily"
                      /\ procs'[t].pc = "idle"
                      /\ procs'[r].old = procs[t].old
                      /\ procs'[r].efw = procs[t].efw
          /\ r \in DOMAIN procs =>
                /\ r \in DOMAIN procs'
                \* no other call or revert touches its snapshot while it waits
                /\ (procs[r].pc = "waiting" /\ procs'[r].pc = "waiting") =>
                      /\ procs'[r].old = procs[r].old
                      /\ procs'[r].efw = procs[r].efw
                \* it fires into exactly one revert of its own snapshot
                /\ (procs[r].pc = "waiting" /\ procs'[r].pc # "waiting") =>
                      /\ procs'[r].op = "revert"
                      /\ procs'[r].pc = (IF procs[r].efw THEN "lc_lock" ELSE "ih_lock")
                      /\ procs'[r].old = procs[r].old
                      /\ ~procs[r].efw => opts'.Config = procs[r].old
                \* and once it has fired it never waits or fires again
                /\ procs[r].pc # "waiting" => procs'[r].pc # "waiting"
                /\ procs[r].pc = "done" => procs'[r].pc = "done"

\* C13: every UseConfigTemporarily call starts one revert goroutine of its
\* own, whatever other calls are made meanwhile; the goroutine fires once
\* with the snapshot of its call, never again, and (the timer firing and the
\* program not panicking) it is never dropped: it runs to its end.
C13_EveryRevertOnce ==
    /\ [][RevertDiscipline]_vars
    /\ (\E r \in RevertIds : At(r, "waiting")) ~>
          (panicAt # "" \/ \A r \in Started(procs) : procs[r].pc = "done")

\* two calls, two reverts, both have run
C13_Witness ==
    /\ panicAt = ""
    /\ Cardinality({r \in Started(procs) : procs[r].pc = "done"}) = 2

(***************************************************************************)
(* C14                                                                     *)
(***************************************************************************)
\* NewHandler has not produced a handler: nothing was constructed, no
\* configuration or scope table exists, no file was read, no watcher runs
NothingConstructed ==
    /\ handler = "none"
    /\ opts.Config = Nil /\ opts.ConfigFile = NilPath
    /\ pkgMap = {}
    /\ \A p \in DOMAIN procs : procs[p].data = NoData /\ procs[p].pc \in {"idle", "none"}
    /\ Watchers = {} /\ doneCh = NoCh
    /\ mu = Free

\* C14: NewHandler called with a nil handler panics and does not return: no
\* Handler is produced, no config file is read and no watcher is started.
C14_NilHandlerPanics ==
    wrapped = "nil" => (panicAt = PanicNil /\ NothingConstructed)

\* the panic, with a config file in place that a construction would read
C14_Witness ==
    /\ wrapped = "nil" /\ panicAt = PanicNil
    /\ fs[defaultConfigFile] = DocInfo

(***************************************************************************)
(* C15                                                                     *)
(***************************************************************************)
\* C15: NewHandler called with a handler that is itself a *Handler panics and
\* does not return, so no Handler ever wraps another Handler.
C15_NestedHandlerPanics ==
    /\ wrapped = "Handler" => (panicAt = PanicNested /\ NothingConstructed)
    /\ handler # "none" => wrapped = "other"

C15_Witness ==
    /\ wrapped = "Handler" /\ panicAt = PanicNested
    /\ handler = "none"

(***************************************************************************)
(* C16                                                                     *)
(***************************************************************************)
\* the canonical base severity of a level name
BaseOf(name) ==
    IF name = LogLevelDebug THEN GoInt(LevelDebug)
    ELSE IF name = LogLevelInfo THEN GoInt(LevelInfo)
    ELSE IF name = LogLevelWarn THEN GoInt(LevelWarn)
    ELSE GoInt(LevelError)

\* the severity a token denotes: the base of its name plus or minus its
\* offset, as an integer of any size
Denoted(tok) ==
    IF tok.sign = "+" THEN Add(BaseOf(tok.name), Decimal(tok.digits))
    ELSE IF tok.sign = "-" THEN Sub(BaseOf(tok.name), Decimal(tok.digits))
    ELSE BaseOf(tok.name)

\* a value that a slog.Level can hold
Representable(x) == Geq(x, MinInt) /\ Geq(MaxInt, x)

\* C16: for NAME one of DEBUG, INFO, WARN, ERROR in any letter case and every
\* k >= 0, GetLogLevel(NAME) is the base of NAME, GetLogLevel(NAME+k) is
\* base + k and GetLogLevel(NAME-k) is base - k (so the result is strictly
\* monotonic in k and tokens of equal sum are the same severity); stated
\* here for every token whose sum a slog.Level can hold.
C16_ExactOffset ==
    (token.called /\ token.name # <<>> /\ token.trail = <<>>
        /\ Representable(Denoted(token)))
        => level = Denoted(token)

(***************************************************************************)
(* C17                                                                     *)
(***************************************************************************)
\* the configurations whose global level and package override are given as lv
CfgWith(lv) == [LogLevel |-> lv, Packages |-> <<[Name |-> PkgB, LogLevel |-> lv]>>]

\* C17: for every token with no recognized name prefix (no letter at all,
\* the empty token included, or a first run of letters that is none of
\* DEBUG, INFO, WARN, ERROR) GetLogLevel returns the severity of INFO and
\* raises no error; a configuration whose log_level is such a token decides
\* every record as the configuration with log_level INFO does.
C17_UnknownNameIsInfo ==
    (token.called /\ token.name = <<>>) =>
        /\ level = GoInt(LevelInfo)
        /\ panicAt = ""
        /\ \A lvl \in {GoInt(LevelDebug), GoInt(LevelInfo), GoInt(LevelWarn)} :
           \A pkg \in {PkgA, PkgB} :
              DecideBy(CfgWith(token.text), lvl, pkg)
                  = DecideBy(CfgWith(LogLevelInfo), lvl, pkg)

\* an unknown name followed by an offset, answered with INFO
C17_Witness ==
    /\ token.called /\ token.name = <<>>
    /\ token.text = <<"t", "r", "a", "c", "e", "+", "5">>
    /\ level = GoInt(LevelInfo)

(***************************************************************************)
(* C18                                                                     *)
(***************************************************************************)
\* UseConfig(cfg) has returned, and the operation completed just before it
\* was UseConfig(cfg) too; no other reconfiguration ran meanwhile
AppliedTwice ==
    /\ quiet.op = "UseConfig"
    /\ quiet.prev.op = "UseConfig"
    /\ quiet.prev.cfg = quiet.cfg

\* C18: applying the same configuration with UseConfig twice in a row leaves
\* what applying it once left: the same GetConfig result, the same scope
\* table, the same Enabled decisions, and no watcher armed.
C18_UseConfigIdempotent ==
    AppliedTwice =>
        /\ opts.Config = quiet.prev.config
        /\ pkgMap = quiet.prev.table
        /\ \A lvl \in {GoInt(LevelDebug), GoInt(LevelInfo), GoInt(LevelWarn),
                        GoInt(LevelError)} :
           \A pkg \in {PkgA, PkgB} :
              EnabledResult(pkgMap, getLogLevel(opts.Config.LogLevel), lvl, pkg)
                = EnabledResult(quiet.prev.table,
                                getLogLevel(quiet.prev.config.LogLevel), lvl, pkg)
        /\ ReadsAgree(quiet.prev.config)
        /\ ~quiet.prev.armed /\ ~Armed
        /\ ~opts.EnableFileWatcher

\* twice the configuration with a package override, on a handler that was
\* constructed with the file watcher enabled
C18_Witness ==
    /\ AppliedTwice /\ quiet.cfg = CfgError
    /\ pkgMap # {}
    /\ \E w \in Watchers : procs[w].chClosed

(***************************************************************************)
(* C19                                                                     *)
(***************************************************************************)
\* the names a list of packages holds more than once, and the last entry
\* of a name
Repeated(P) ==
    {P[i].Name : i \in {k \in 1..Len(P) :
                          \E j \in 1..Len(P) : j # k /\ P[j].Name = P[k].Name}}
LastEntry(P, name) ==
    P[CHOOSE i \in 1..Len(P) :
         /\ P[i].Name = name
         /\ \A j \in (i + 1)..Len(P) : P[j].Name # name]

\* C19: when a configuration that lists a package name more than once has
\* been applied (no other reconfiguration running meanwhile), the scope
\* table holds for that name one entry, with the level of the last entry of
\* the list, and Enabled decides records of that package by this level.
C19_LastEntryWins ==
    (quiet.op \in {"NewHandler", "UseConfig", "UseConfigTemporarily"}
        /\ quiet.cfg # Nil) =>
        \A n \in Repeated(quiet.cfg.Packages) :
            LET last == getLogLevel(LastEntry(quiet.cfg.Packages, n).LogLevel)
            IN  /\ {e \in pkgMap : e[1] = n} = {<<n, last>>}
                /\ (rd.pc = "done" /\ rd.op = "Enabled" /\ rd.clean /\ rd.pkg = n)
                       => rd.result = Geq(rd.lvl, last)

\* a WARN record of the package listed with ERROR first and DEBUG last
C19_Witness ==
    /\ quiet.op = "UseConfig" /\ quiet.cfg = CfgTwice
    /\ rd.pc = "done" /\ rd.op = "Enabled" /\ rd.clean /\ rd.pkg = PkgA
    /\ rd.lvl = GoInt(LevelWarn) /\ rd.result

(***************************************************************************)
(* C20                                                                     *)
(***************************************************************************)
\* the path UseConfigFile(arg...) binds when bound was bound before
BoundPath(arg, bound) ==
    IF Len(arg) = 1 /\ arg[1] # "" THEN arg[1]
    ELSE IF bound # NilPath THEN bound
    ELSE defaultConfigFile

\* C20: when UseConfigFile has returned (no other reconfiguration running
\* meanwhile), the bound path is its argument if it was given exactly one
\* non-empty path, and the path bound before otherwise (the default file
\* name if none was); in every case EnableFileWatcher is true, the file at
\* the bound path is the one that was read, and the configuration in force
\* is the one loaded from it (the default configuration when it did not
\* load).
C20_UseConfigFileBinds ==
    quiet.op = "UseConfigFile" =>
        /\ opts.ConfigFile = BoundPath(quiet.arg, quiet.bound)
        /\ opts.EnableFileWatcher
        /\ quiet.read = opts.ConfigFile
        /\ quiet.data # NoData
        /\ Active(IF quiet.data.kind = "yaml" THEN Unmarshal(quiet.data).cfg
                  ELSE DefaultConfig)

\* another path than the bound one was given, and its file was loaded
C20_Witness ==
    /\ quiet.op = "UseConfigFile"
    /\ quiet.arg = <<AltFile>> /\ quiet.bound = defaultConfigFile
    /\ opts.ConfigFile = AltFile
    /\ quiet.data = DocWarn /\ opts.Config = Unmarshal(DocWarn).cfg

(***************************************************************************)
(* C21                                                                     *)
(***************************************************************************)
\* C21: configurations cross the API as independent snapshots.  Whatever the
\* application does afterwards to the Config it gave to NewHandler, passed
\* to UseConfig or UseConfigTemporarily, or got from GetConfig, the
\* configuration of the handler stays as it was handed over until a
\* reconfiguration replaces it: GetConfig returns it and Enabled reads its
\* global level.
C21_IndependentSnapshots ==
    held.kind # "none" =>
        /\ opts.Config = held.was
        /\ (rd.pc = "done" /\ rd.op = "GetConfig") => rd.cfg = held.was
        /\ (rd.pc \in {"load", "done"} /\ rd.op = "Enabled" /\ rd.clean)
               => rd.global = getLogLevel(held.was.LogLevel)

(***************************************************************************)
(* C22                                                                     *)
(***************************************************************************)
\* a revert is running, and the operation that had completed when its timer
\* fired was a UseConfig or UseConfigFile call: a call made after the
\* UseConfigTemporarily call that scheduled the revert
StaleRevertRuns ==
    /\ quiet.prev.op \in {"UseConfig", "UseConfigFile"}
    /\ \E r \in DOMAIN procs : r[1] = "r" /\ procs[r].op = "revert" /\ Busy(r)

\* C22: a pending revert does not overwrite a configuration installed later
\* by UseConfig or UseConfigFile: when its timer fires after such a call, the
\* configuration, the scope table and the watcher stay as that call left
\* them.
C22_StaleRevertIsNoOp ==
    StaleRevertRuns =>
        /\ opts.Config = quiet.prev.config
        /\ pkgMap = quiet.prev.table
        /\ Armed = quiet.prev.armed

(***************************************************************************)
(* C23                                                                     *)
(***************************************************************************)
\* every revert of a series of overlapping UseConfigTemporarily calls has
\* completed, nothing else has reconfigured the handler since the first of
\* them, and the handler was statically configured when it was made
SeriesOver ==
    /\ series.state = "open" /\ ~series.efw
    /\ ~Pending
    /\ \A p \in DOMAIN procs : ~Busy(p)

\* C23: when UseConfigTemporarily calls overlap and nothing else
\* reconfigures the handler, the configuration active after all reverts have
\* fired is the one that was active before the first temporary call.
C23_SeriesEndsAtBase ==
    SeriesOver => opts.Config = series.base

(***************************************************************************)
(* C24                                                                     *)
(***************************************************************************)
\* revert r has rebuilt the handler with nothing else reconfiguring since
\* its UseConfigTemporarily call began; the handler was watching then, the
\* bound file had vanished before the call and was still missing when the
\* revert looked for it
RevertedWithoutFile(r) ==
    /\ procs[r].op = "revert" /\ procs[r].pc = "log" /\ procs[r].alone
    /\ procs[r].efw /\ procs[r].gone
    /\ procs[r].data.kind = "missing"

\* C24: if the watched file was renamed or removed before a
\* UseConfigTemporarily call, the revert restores the configuration that was
\* active before the call, not the default, and leaves no watcher armed.
C24_RevertKeepsLastGood ==
    \A r \in Reverters :
        RevertedWithoutFile(r) => opts.Config = procs[r].old /\ ~Armed

(***************************************************************************)
(* C25                                                                     *)
(***************************************************************************)
\* no goroutine has a step left to take: no reconfiguration is in progress,
\* no revert is to come and no watcher has an event to receive
AtRest ==
    /\ handler = "ready"
    /\ \A p \in DOMAIN procs :
          /\ ~Busy(p) /\ procs[p].pc # "waiting"
          /\ procs[p].pc = "armed" => procs[p].events = <<>>

\* two events so far, the last operation a reload by the watcher that
\* completed with no reconfiguration beside it: the events are writes to the
\* watched file.  The file is decodable, watching is enabled and a watcher
\* is armed on the file.
AfterWrites ==
    /\ env = 2 /\ quiet.op = "reload"
    /\ opts.EnableFileWatcher
    /\ fs[opts.ConfigFile].kind = "yaml"
    /\ Armed /\ procs[doneCh].attached /\ procs[doneCh].path = opts.ConfigFile

\* C25: while watching stays enabled and the file exists, once the handler has
\* come to rest after a burst of writes the configuration in force is the
\* one decoded from the final content of the file; a write that arrives
\* during a reload is not lost.
C25_WritesSettle ==
    (AtRest /\ AfterWrites) => Active(Unmarshal(fs[opts.ConfigFile]).cfg)

(***************************************************************************)
(* C26                                                                     *)
(***************************************************************************)
\* writer t has replaced the configuration reference and has not yet
\* rebuilt the table and seen to the watcher
Swapped(t) ==
    /\ procs[t].op \in {"UseConfig", "UseConfigTemporarily", "UseConfigFile",
                        "revert", "reload"}
    /\ procs[t].pc \in {"ih_lock", "ih_clear", "ih_store", "ih_watch"}

\* C26: a writer replaces the configuration reference, rebuilds the scope
\* table and re-arms or disarms the watcher inside one critical section of
\* ss.mu: from its swap to the end of its rebuild it holds the mutex.
C26_OneCriticalSection ==
    \A t \in DOMAIN procs : Swapped(t) => mu = t

(***************************************************************************)
(* C27                                                                     *)
(***************************************************************************)
\* the handler is constructed and no reconfiguration is in progress
Idle == handler = "ready" /\ \A p \in DOMAIN procs : ~Busy(p)

\* the application has not written to the configuration through memory it
\* shares with the handler
Unmodified == held.kind # "none" => opts.Config = held.was

\* C27: whenever no reconfiguration is in progress, the scope table is
\* exactly the mapping derived from the package list of the current
\* configuration, and the global level an Enabled call has read is the parsed
\* LogLevel of the current configuration, whatever the interleaving of the
\* writers was.
C27_TableMatchesConfig ==
    (Idle /\ Unmodified) =>
        /\ opts.Config # Nil
        /\ pkgMap = TableOf(opts.Config)
        /\ (rd.pc = "load" /\ rd.clean)
               => rd.global = getLogLevel(opts.Config.LogLevel)

\* every revert has completed, other reconfigurations having run since its
\* UseConfigTemporarily call began (the last operation did not complete
\* alone); nothing is in progress and the table in force has entries
C27_Witness ==
    /\ Idle /\ Unmodified
    /\ quiet.op = "none"
    /\ \E r \in Reverters : procs[r].pc = "done" /\ ~Pending
    /\ pkgMap # {} /\ pkgMap = TableOf(opts.Config)
    /\ held.kind = "none"

(***************************************************************************)
(* C28                                                                     *)
(***************************************************************************)
\* goroutine t has reached the end of initHandler in its adoption and has
\* armed a watcher there: initConfigFileWatcher found a file it could add
ArmedBy(t) ==
    /\ procs[t].pc \in {"log", "closing"}
    /\ procs[t].found \in {"yaml", "garbage"}

\* C28 as stated: at the end of a configuration adoption a watcher is armed
\* only if the bound file existed when the operation started.
C28_ArmedOnlyIfFileAtStart ==
    \A t \in DOMAIN procs : ArmedBy(t) => procs[t].existed


\* C28: the step that ends initHandler arms a watcher only if
\* EnableFileWatcher is true and the bound file exists at that step, and the
\* watcher is a new one on the bound file; when the file does not exist the
\* handler is left unarmed, nothing panics and the operation goes on.
C28_ArmedOnlyIfFileExists ==
    [][\A t \in DOMAIN procs :
          (procs[t].pc = "ih_watch" /\ procs'[t].pc # "ih_watch") =>
              /\ doneCh' # NoCh =>
                    /\ opts.EnableFileWatcher
                    /\ checkFileExists(opts.ConfigFile)
                    /\ doneCh' \notin DOMAIN procs
                    /\ procs'[doneCh'].pc = "armed"
                    /\ procs'[doneCh'].path = opts.ConfigFile
              /\ ~checkFileExists(opts.ConfigFile) =>
                    /\ doneCh' = NoCh
                    /\ panicAt' = ""
                    /\ procs'[t].pc \in {"idle", "log", "closing"}]_vars

\* an adoption with watching enabled has found no file: no watcher is armed
\* and nothing has panicked
C28_Witness ==
    /\ panicAt = "" /\ opts.EnableFileWatcher /\ doneCh = NoCh
    /\ \E t \in DOMAIN procs :
          procs[t].pc \in {"log", "closing"} /\ procs[t].found = "missing"

(***************************************************************************)
(* C29                                                                     *)
(***************************************************************************)
\* C29: an armed watcher is single-shot.  The step in which it takes a
\* write, remove or rename event ends its receiving: on remove or rename it
\* exits, on write it starts one reload; a watcher that has left the select
\* never receives again, its reload is followed by its exit only, and an
\* exited watcher stays exited with its subscription closed.  The reload
\* arms a new watcher instance when watching is enabled and the file can be
\* watched at the end of the reload.
C29_SingleShot ==
    [][\A w \in Watchers :
          /\ ( /\ procs[w].pc = "armed" /\ procs'[w].pc # "armed"
               /\ procs[w].events # <<>> /\ ~procs[w].chClosed ) =>
                 IF Head(procs[w].events) = "Write"
                 THEN procs'[w].pc = "lc_lock" /\ procs'[w].op = "reload"
                 ELSE procs'[w].pc = "exited"
          /\ procs[w].pc # "armed" => procs'[w].pc # "armed"
          /\ procs[w].pc \notin {"armed", "lc_lock"} => procs'[w].pc # "lc_lock"
          /\ procs[w].pc = "closing" => procs'[w].pc \in {"closing", "exited"}
          /\ procs[w].pc = "exited" =>
                 procs'[w].pc = "exited" /\ ~procs'[w].attached
          /\ ( /\ procs[w].pc = "ih_watch" /\ procs'[w].pc = "closing"
               /\ opts.EnableFileWatcher /\ WatcherStarts(opts.ConfigFile) ) =>
                 /\ doneCh' \notin DOMAIN procs
                 /\ procs'[doneCh'].pc = "armed"
                 /\ procs'[doneCh'].attached
                 /\ procs'[doneCh'].path = opts.ConfigFile]_vars

\* a watcher has reloaded after a write and has exited, and the watcher its
\* reload armed has in turn taken a remove or rename event and exited
C29_Witness ==
    \E v, w \in Watchers :
        /\ v # w /\ doneCh = w
        /\ procs[v].pc = "exited" /\ procs[v].chClosed
        /\ procs[w].pc = "exited" /\ ~procs[w].chClosed
        /\ ~checkFileExists(opts.ConfigFile)

(***************************************************************************)
(* C30                                                                     *)
(***************************************************************************)
\* the watcher ss.doneCh belongs to is receiving events of the bound file
LiveSubscription ==
    /\ At(doneCh, "armed") /\ ~procs[doneCh].chClosed
    /\ procs[doneCh].attached
    /\ procs[doneCh].path = opts.ConfigFile

\* C30: whenever no reconfiguration is in progress and no watcher has an
\* event left to take, the handler holds a done channel only if watching is
\* enabled and a live watcher subscription exists for the bound file: none
\* remains after the watcher closed itself on rename or remove, and none
\* exists under a static configuration.
C30_HandleOnlyWhileWatching ==
    (AtRest /\ doneCh # NoCh) => (opts.EnableFileWatcher /\ LiveSubscription)

(***************************************************************************)
(* C31                                                                     *)
(***************************************************************************)
\* the watcher goroutines that have neither been told to stop nor taken the
\* event that ends their receiving
LiveWatchers ==
    {w \in Watchers : procs[w].pc = "armed" /\ ~procs[w].chClosed}

\* C31: at any time at most one watcher goroutine exists whose done channel
\* is open and which has not yet taken its triggering event, and it is the
\* one ss.doneCh belongs to: a watcher is started only after the one before
\* has been signalled.
C31_OneLiveWatcher ==
    /\ Cardinality(LiveWatchers) <= 1
    /\ \A w \in LiveWatchers : doneCh = w

\* a watcher has been signalled and has not yet left its select, and the
\* watcher started after it is live
C31_Witness ==
    \E v, w \in Watchers :
        /\ v # w
        /\ procs[v].pc = "armed" /\ procs[v].chClosed
        /\ LiveWatchers = {w}

(***************************************************************************)
(* C32                                                                     *)
(***************************************************************************)
\* the identities of watcher goroutines
WatcherIds == {t \in Threads : t[1] = "w"}

\* watcher w has returned and its fsnotify subscription is closed
Gone(w) == At(w, "exited") /\ ~procs[w].attached

\* C32: a watcher whose done channel a reconfiguration has closed, to disarm
\* or to replace it, eventually exits with its subscription closed, unless
\* the program panics first.
C32_SignalledWatcherExits ==
    \A w \in WatcherIds :
        (w \in DOMAIN procs /\ procs[w].chClosed) ~> (Gone(w) \/ panicAt # "")

\* UseConfig has disarmed the watcher and the watcher has exited on its done
\* channel
C32_Witness ==
    /\ quiet.op = "UseConfig" /\ doneCh = NoCh /\ panicAt = ""
    /\ \E w \in Watchers : Gone(w) /\ procs[w].chClosed

(***************************************************************************)
(* C33                                                                     *)
(***************************************************************************)
\* goroutine t is about to read the bound file (checkFileExists and
\* os.ReadFile in loadConfig), or about to create and register the watcher
\* (initConfigFileWatcher at the end of initHandler)
AtFileOrWatcherIo(t) == procs[t].pc \in {"lc_read", "ih_watch"}

\* C33: no writer holds ss.mu while it reads the config file or while it
\* creates and registers the file watcher.
C33_NoIoUnderMutex ==
    \A t \in DOMAIN procs : AtFileOrWatcherIo(t) => mu # t

(***************************************************************************)
(* C34                                                                     *)
(***************************************************************************)
\* a writer holds ss.mu and is at the file read of loadConfig or at the
\* watcher setup of initHandler
MutexHeldForIo == \E t \in DOMAIN procs : mu = t /\ AtFileOrWatcherIo(t)

\* C34: Enabled neither takes ss.mu nor touches the file: a step of an
\* Enabled call leaves the mutex and the file system as they are, and while
\* a writer holds the mutex for a file read or the watcher setup a call in
\* progress can take its next step and a new call can be made.
C34_EnabledNeverBlocks ==
    [][/\ (rd'.pc # rd.pc /\ "Enabled" \in {rd.op, rd'.op})
              => (mu' = mu /\ fs' = fs)
       /\ (MutexHeldForIo /\ Running /\ rd.pc = "load") => ENABLED EnabledLoad
       /\ (MutexHeldForIo /\ Running /\ rd.pc = "idle" /\ handler = "ready"
             /\ EnvStep)
              => ENABLED (\E lvl \in Severities, pkg \in Callers :
                             EnabledGlobal(lvl, pkg))]_vars

\* an Enabled call has just returned its decision while a writer holds the
\* mutex for a file read or the watcher setup
C34_Witness ==
    /\ rd.pc = "done" /\ rd.op = "Enabled" /\ panicAt = ""
    /\ MutexHeldForIo

(***************************************************************************)
(* C35                                                                     *)
(***************************************************************************)
\* in this step watcher w takes an error from watcher.Errors, or an event
\* that is neither a write nor a remove nor a rename
PassesOver(w) ==
    /\ At(w, "armed")
    /\ procs'[w].passed > procs[w].passed

\* C35: a step in which a watcher takes an error notification, or an event
\* that is not a write, rename or remove, leaves the configuration, the
\* scope table, EnableFileWatcher, the bound file and ss.doneCh unchanged;
\* the watcher stays armed with its subscription and its done channel as
\* they were, and no other goroutine moves.
C35_OtherNotificationsIgnored ==
    [][\A w \in Watchers :
          PassesOver(w) =>
              /\ UNCHANGED <<opts, pkgMap, doneCh, fs, mu, panicAt>>
              /\ procs'[w].pc = "armed"
              /\ procs'[w].attached = procs[w].attached
              /\ procs'[w].chClosed = procs[w].chClosed
              /\ procs'[w].path = procs[w].path
              /\ DOMAIN procs' = DOMAIN procs
              /\ \A p \in DOMAIN procs \ {w} : procs'[p] = procs[p]]_vars

\* the watcher in place has passed over a notification and is still armed on
\* the bound file, with nothing left to take
C35_Witness ==
    /\ Armed /\ LiveSubscription
    /\ procs[doneCh].passed > 0
    /\ procs[doneCh].events = <<>> /\ procs[doneCh].errs = 0


(***************************************************************************)
(* C36                                                                     *)
(***************************************************************************)
\* the token without what follows it
Prefix(tok) == SubSeq(tok.text, 1, Len(tok.text) - Len(tok.trail))

\* what follows makes a longer token of the grammar: a signed number after
\* the bare name, a digit after the number
Lengthens(tok) ==
    LET tr == ToUpper(tok.trail)
    IN  \/ tok.digits = <<>> /\ Len(tr) >= 2 /\ tr[1] \in {"+", "-"} /\ IsDigit(tr[2])
        \/ tok.digits # <<>> /\ IsDigit(tr[1])

\* what follows is taken by the pattern for more of the token: it lengthens
\* the token, or it starts with a letter right after the bare name
Extends(tok) ==
    \/ Lengthens(tok)
    \/ tok.digits = <<>> /\ IsLetter(ToUpper(tok.trail)[1])

\* C36 as stated: a token made of a level name, or a level name with a
\* signed number (the longest such prefix), followed by arbitrary characters
\* is parsed as the token without them: GetLogLevel returns what it returns
\* for the prefix alone.
C36_TrailIgnored ==
    (token.called /\ token.trail # <<>> /\ ~Lengthens(token))
        => level = getLogLevel(Prefix(token))

\* C36: a token made of a level name, or a level name with a signed number,
\* followed by characters that do not continue it (no letter after the name,
\* no signed number after the bare name, no digit after the number) is
\* parsed as the token without them: GetLogLevel returns what it returns
\* for the prefix alone, the denoted severity when a slog.Level can hold it.
C36_ForeignTrailIgnored ==
    (token.called /\ token.trail # <<>> /\ ~Extends(token)) =>
        /\ level = getLogLevel(Prefix(token))
        /\ Representable(Denoted(token)) => level = Denoted(token)

\* warn+2 followed by a blank and a letter, answered with WARN+2
C36_Witness ==
    /\ token.called
    /\ token.text = <<"w", "a", "r", "n", "+", "2", " ", "x">>
    /\ token.trail = <<" ", "x">>
    /\ level = Denoted(token)
    /\ level # GoInt(LevelInfo)


(***************************************************************************)
(* C37                                                                     *)
(***************************************************************************)
\* some goroutine is inside NewHandler, a Use* call, a revert or a reload
InCall == \E t \in DOMAIN procs : Busy(t)

\* every goroutine has left the call it was in, and the mutex is free
AllReturned == mu = Free /\ \A t \in DOMAIN procs : ~Busy(t)

\* the step in which the UseConfigTemporarily call of t returns
ReturnsFromTemporarily(t) ==
    /\ At(t, "log") /\ procs[t].op = "UseConfigTemporarily"
    /\ procs'[t].pc = "idle"

DerivedAsked ==
    /\ rd.pc = "done" /\ rd.op = "DerivedEnabled"
    /\ panicAt = "" /\ Idle /\ Unmodified
    /\ opts.Config # Nil

\* what Enabled of the Handler decides in the current state
ScopedDecision(lvl, pkg) ==
    EnabledResult(pkgMap, getLogLevel(opts.Config.LogLevel), lvl, pkg)

\* C38: a handler obtained from WithAttrs or WithGroup filters as the
\* Handler it was derived from: for the severity and the calling package of
\* a record its Enabled decision is the decision of the Handler, also after
\* the Handler has been reconfigured.
C38_DerivedFiltersAlike ==
    DerivedAsked => rd.result = ScopedDecision(rd.lvl, rd.pkg)


(***************************************************************************)
(* C39                                                                     *)
(***************************************************************************)
\* a step of the handler: of NewHandler, of a Use* call, of a revert, of a
\* reload or of a watcher, or of a GetConfig or Enabled call
HandlerStep ==
    \/ handler' # handler \/ opts' # opts \/ pkgMap' # pkgMap
    \/ mu' # mu \/ doneCh' # doneCh \/ panicAt' # panicAt
    \/ rd'.pc # rd.pc
    \/ DOMAIN procs' # DOMAIN procs
    \/ \E p \in DOMAIN procs : procs'[p].pc # procs[p].pc

Closes(w) == ~procs[w].chClosed /\ procs'[w].chClosed

\* C40: no done channel is closed twice or closed after ss.doneCh was
\* cleared of it: under every interleaving of the Use* calls, the watcher
\* events (a watcher that has already exited on a rename or removal
\* included) and the reverts, the close in initHandler never panics; the
\* channel ss.doneCh refers to is open, and a channel is closed only in a
\* step that finds it in ss.doneCh and takes it out, so never again.
C40_ClosedOnce ==
    /\ [](panicAt # "close of closed channel")
    /\ [](doneCh # NoCh => ~procs[doneCh].chClosed)
    /\ [][\A w \in Watchers : Closes(w) => (doneCh = w /\ doneCh' # w)]_vars

\* two done channels have been closed, each once, their watchers have
\* exited and the program has not panicked
C40_Witness ==
    /\ panicAt = "" /\ AllReturned
    /\ \E v, w \in Watchers :
          /\ v # w
          /\ procs[v].chClosed /\ procs[w].chClosed
          /\ At(v, "exited") /\ At(w, "exited")

====
